---- MODULE Spec2Model ----
(***************************************************************************)
(* Model of the scraping orchestrator of spareparts-api-mvp.               *)
(*                                                                         *)
(* This part models the Ingestion Pipeline, scraper.process_results, over  *)
(* the SQLAlchemy session of database/db.py (autocommit=False,             *)
(* autoflush=False) and the tables of database/models.py, with SQLite's    *)
(* behaviour (the default DATABASE_URI): a failed statement leaves the     *)
(* transaction open, a failed flush deactivates the session's transaction  *)
(* until rollback() is called.                                             *)
(*                                                                         *)
(* The committed tables are parts and avails.  Inside a call the session   *)
(* sees txParts / txAvails: the rows of its open transaction, with the     *)
(* attribute changes of the objects it has loaded (they are read back      *)
(* through the identity map).  New Availability objects stay in `pending`  *)
(* until a flush: a query does not see them (autoflush=False).             *)
(*                                                                         *)
(* Not modelled: the timestamps updated_at and last_checked (set to the    *)
(* current time on every write) and the optional Part columns description, *)
(* category and image_url, which follow the rule modelled for the optional *)
(* Availability columns (create: item.get(k); update: item.get(k, old)).   *)
(***************************************************************************)
EXTENDS Integers, Sequences, FiniteSets, TLC

\* ---------------------------------------------------------------- bounds
\* Items a behaviour hands to process_results, over all its calls (so also
\* the longest batch).
MaxItems == 4
\* Calls of process_results with a non-empty batch in a behaviour (also the
\* range of the clock).
MaxCalls == 2
\* Items of a behaviour that runs a batch twice, the batch and the calls
\* before it together.
MaxTwiceItems == 3

\* ------------------------------------------------------------ value space
\* A key the item dict does not hold, and Python's None / SQL NULL.
Absent == "absent"
Null == "null"

Refs == {"r1", "r2"}

\* Suppliers registered for the sources of config.SOURCES (ids 1 and 2).
NumSources == 2
SupplierIds == 1..NumSources

\* The shapes of RawItem the adapters produce, by their optional keys: all
\* three found on the page, none of them found, and keys written with None
\* (sources/piecesdetachees24.py writes item['url'] = None when the link is
\* not found).  A key the dict does not hold is Absent.
Shapes ==
    { [name |-> "n1", price |-> "p1", in_stock |-> "true", url |-> "u1"],
      [name |-> "n1", price |-> Absent, in_stock |-> Absent, url |-> Absent],
      [name |-> "n1", price |-> Null, in_stock |-> Absent, url |-> Null] }

\* The listing of r1 under another title.
Renamed ==
    [reference |-> "r1", name |-> "n2", price |-> Absent, in_stock |-> Absent, url |-> Absent]

ValidItems == { [reference |-> r] @@ sh : r \in Refs, sh \in Shapes } \cup {Renamed}

\* Items the loop skips: no reference key, and an empty name (the adapters
\* write item['name'] = "" when the title is not found).
SkippedItems ==
    { [reference |-> Absent, name |-> "n1", price |-> "p1", in_stock |-> "true", url |-> "u1"],
      [reference |-> "r1", name |-> "", price |-> "p1", in_stock |-> "true", url |-> "u1"] }

Items == ValidItems \cup SkippedItems

\* What the storage layer may do to one item's statements, besides working:
\* the flush of a new Part raises, the Availability query raises.
Faults == {"none", "flush", "avail_query"}

\* ------------------------------------------------------------- dict access
\* item.get(key, default)
Get(it, key, default) == IF it[key] = Absent THEN default ELSE it[key]

\* A skip test that looks at the reference only.
MissingReferenceOnly(it) == Get(it, "reference", Null) \in {Null, ""}

\* not item.get('reference') or not item.get('name')
Missing(it) ==
    \/ Get(it, "reference", Null) \in {Null, ""}
    \/ Get(it, "name", Null) \in {Null, ""}

\* ------------------------------------------------------------------ tables
MaxOf(S) == CHOOSE m \in S : \A x \in S : x <= m

\* INTEGER PRIMARY KEY of SQLite: the largest id of the table plus one.
NextId(rows) == IF rows = {} THEN 1 ELSE MaxOf({r.id : r \in rows}) + 1

\* Part.query.filter_by(reference=ref).first()
PartsByRef(ps, ref) == {p \in ps : p.reference = ref}

\* Availability.query.filter_by(part_id=pid, supplier_id=sid).first()
AvailsByKey(as, pid, sid) == {a \in as : a.part_id = pid /\ a.supplier_id = sid}

\* The unique index idx_part_supplier accepts the new rows `pend` on top of
\* the rows `as`.
RECURSIVE IndexAccepts(_, _)
IndexAccepts(as, pend) ==
    IF pend = <<>> THEN TRUE
    ELSE /\ AvailsByKey(as, Head(pend).part_id, Head(pend).supplier_id) = {}
         /\ IndexAccepts(as \cup {[id |-> NextId(as)] @@ Head(pend)}, Tail(pend))

\* The INSERTs of a flush, in the order the objects were added.
RECURSIVE InsertAll(_, _)
InsertAll(as, pend) ==
    IF pend = <<>> THEN as
    ELSE InsertAll(as \cup {[id |-> NextId(as)] @@ Head(pend)}, Tail(pend))

\* ------------------------------------------------------------------- state
VARIABLES
    parts,          \* committed rows of table parts
    avails,         \* committed rows of table availability
    txParts,        \* table parts as the session's open transaction sees it
    txAvails,       \* table availability as the open transaction sees it
    pending,        \* Availability objects added to the session, not yet INSERTed
    txOpen,         \* the session has sent a statement since its last commit/rollback
    poisoned,       \* a flush failed: the session refuses statements until rollback()
    pc,             \* "idle", "loop", "done": position in process_results
    supplier,       \* supplier.id of the call
    n,              \* items of results the for loop has consumed; len(results) at its end
    count_new, count_updated, count_errors,
    ret,            \* the returned pair (success, processed_items)
    now,            \* datetime.utcnow(), one tick per call that reads it
    budget,         \* items the behaviour may still hand to process_results
    batch,          \* the batch of a call that will be run again (SpecTwice)
    run,            \* 0: a call on its own; 1, 2: first and second run of batch
    \* observers of the call, read by the properties only
    parts0, avails0,    \* the committed tables when the call began
    valid,              \* items consumed that carry reference and name
    raised,             \* exceptions caught by the per-item handler
    flushedParts,       \* Part rows INSERTed by the flushes of the call
    commitResult        \* "none", "ok", "failed" (by the session), "env_failed"

(***************************************************************************)
(* Metrics Store: load_metrics, save_metrics, update_source_metrics and    *)
(* get_source_priority.  Times are in seconds.  Python floats are modelled *)
(* as exact rationals <<numerator, denominator>> in lowest terms; last_run *)
(* is not modelled.                                                        *)
(***************************************************************************)

\* Outcomes recorded by a behaviour of SpecMetrics.
MaxOutcomes == 6

\* Outcomes recorded by a behaviour of SpecBuffers.
MaxBufferRuns == 52

\* response_times[-50:] and items_counts[-20:]
ResponseTimesCap == 50
ItemsCountsCap == 20

\* The sources of config.SOURCES, by position in the list.
Sources == 1..NumSources

\* response_time=None, items_count=None
NoNumber == -1

\* error.__class__.__name__
ErrorKinds == {"ImportError", "TransientFetchError"}

\* Values of config.SCRAPER_DELAY: the default 1.0, and 6.0.
BaseDelays == {<<1, 1>>, <<6, 1>>}

\* The cap of the tuned delay, 5.0.
DelayCap == <<5, 1>>

Abs(x) == IF x < 0 THEN 0 - x ELSE x

RECURSIVE Gcd(_, _)
Gcd(a, b) == IF b = 0 THEN a ELSE Gcd(b, a % b)

\* The rational num/den (den > 0) in lowest terms.
Rat(num, den) == LET g == Gcd(Abs(num), den) IN <<num \div g, den \div g>>

RLess(a, b) == a[1] * b[2] < b[1] * a[2]
RLeq(a, b) == a[1] * b[2] <= b[1] * a[2]
RMax(a, b) == IF RLess(a, b) THEN b ELSE a
RMin(a, b) == IF RLess(b, a) THEN b ELSE a
RPlus(a, k) == Rat(a[1] + k * a[2], a[2])
RTimes(a, k) == Rat(a[1] * k, a[2])
RProduct(a, b) == Rat(a[1] * b[1], a[2] * b[2])

RECURSIVE SumSeq(_)
SumSeq(s) == IF s = <<>> THEN 0 ELSE Head(s) + SumSeq(Tail(s))

\* statistics.mean
mean(s) == Rat(SumSeq(s), Len(s))

\* A slice that keeps the oldest k entries.
FirstN(s, k) == IF Len(s) <= k THEN s ELSE SubSeq(s, 1, k)

\* s[-k:]
LastN(s, k) == IF Len(s) <= k THEN s ELSE SubSeq(s, Len(s) - k + 1, Len(s))

\* The entry update_source_metrics creates for a source it has not seen.
NewEntry(delay) ==
    [runs |-> 0, successes |-> 0, failures |-> 0,
     response_times |-> <<>>, items_counts |-> <<>>,
     errors |-> [k \in ErrorKinds |-> 0],
     optimal_delay |-> delay, optimal_pages |-> 3]

\* A tuned delay without the floor of the configured delay.
TunedDelayNoFloor(response_times, delay) ==
    RMin(DelayCap, Rat(SumSeq(response_times), 5 * Len(response_times)))

\* max(config.SCRAPER_DELAY, min(5.0, avg_response_time * 0.2))
TunedDelay(response_times, delay) ==
    RMax(delay, RMin(DelayCap, Rat(SumSeq(response_times), 5 * Len(response_times))))

\* success_rate = successes / max(1, runs); 5, 3 or 2 pages
Pages(successes, runs) ==
    LET r == IF runs < 1 THEN 1 ELSE runs
    IN IF 10 * successes > 9 * r /\ runs > 10 THEN 5
       ELSE IF 10 * successes > 7 * r /\ runs > 5 THEN 3
       ELSE 2

\* A histogram that marks the kind instead of counting it.
CountErrorOnce(errors, error) ==
    IF error # Null THEN [errors EXCEPT ![error] = 1] ELSE errors

\* if error: errors[error_type] = errors.get(error_type, 0) + 1
CountError(errors, error) ==
    IF error # Null THEN [errors EXCEPT ![error] = @ + 1] ELSE errors

update_source_metrics(m, source_name, success, response_time, items_count, error, delay) ==
    LET m1 == IF source_name \in DOMAIN m THEN m
              ELSE m @@ (source_name :> NewEntry(delay))
        e1 == [m1[source_name] EXCEPT !.runs = @ + 1]
        e2 == IF success
              THEN [e1 EXCEPT
                      !.successes = @ + 1,
                      !.response_times =
                          IF response_time # NoNumber
                          THEN LastN(Append(@, response_time), ResponseTimesCap)
                          ELSE @,
                      !.items_counts =
                          IF items_count # NoNumber
                          THEN LastN(Append(@, items_count), ItemsCountsCap)
                          ELSE @]
              ELSE [e1 EXCEPT
                      !.failures = @ + 1,
                      !.errors = CountError(@, error)]
        e3 == IF Len(e2.response_times) >= 5
              THEN [e2 EXCEPT !.optimal_delay = TunedDelay(e2.response_times, delay)]
              ELSE e2
    IN [m1 EXCEPT ![source_name] =
            [e3 EXCEPT !.optimal_pages = Pages(e3.successes, e3.runs)]]

\* A priority without the final clamp.
PriorityUnclamped(m, source_name) ==
    IF source_name \notin DOMAIN m THEN <<5, 1>>
    ELSE LET e == m[source_name]
             r == IF e.runs < 1 THEN 1 ELSE e.runs
             p0 == Rat(10 * r - 10 * e.successes, r)
             p1 == IF e.items_counts # <<>> /\ RLess(<<50, 1>>, mean(e.items_counts))
                   THEN RPlus(p0, -2) ELSE p0
         IN IF e.failures > e.successes THEN RPlus(p1, 3) ELSE p1

\* A priority that rises with the success rate.
PriorityRisingWithRate(m, source_name) ==
    IF source_name \notin DOMAIN m THEN <<5, 1>>
    ELSE LET e == m[source_name]
             r == IF e.runs < 1 THEN 1 ELSE e.runs
             p0 == Rat(10 * e.successes, r)
             p1 == IF e.items_counts # <<>> /\ RLess(<<50, 1>>, mean(e.items_counts))
                   THEN RPlus(p0, -2) ELSE p0
             p2 == IF e.failures > e.successes THEN RPlus(p1, 3) ELSE p1
         IN RMax(<<1, 1>>, RMin(<<10, 1>>, p2))

get_source_priority(m, source_name) ==
    IF source_name \notin DOMAIN m THEN <<5, 1>>
    ELSE LET e == m[source_name]
             r == IF e.runs < 1 THEN 1 ELSE e.runs
             p0 == Rat(10 * r - 10 * e.successes, r)
             p1 == IF e.items_counts # <<>> /\ RLess(<<50, 1>>, mean(e.items_counts))
                   THEN RPlus(p0, -2) ELSE p0
             p2 == IF e.failures > e.successes THEN RPlus(p1, 3) ELSE p1
         IN RMax(<<1, 1>>, RMin(<<10, 1>>, p2))

(***************************************************************************)
(* State of the Metrics Store, the Retry Engine and the Run Coordinator.   *)
(***************************************************************************)
VARIABLES
    metrics,              \* the metrics dict held in memory
    file,                 \* the document in METRICS_FILE
    SCRAPER_DELAY,        \* config.SCRAPER_DELAY
    SCRAPER_MAX_RETRIES,  \* config.SCRAPER_MAX_RETRIES
    enabled,              \* the 'enabled' flag of each entry of config.SOURCES
    suppliers,            \* the rows of the suppliers table
    rpc,                  \* position of run_scrapers
    suppliers_map,        \* ensure_suppliers_exist's dict: source name -> Supplier id
    sorted_sources,       \* the schedule of the round
    idx,                  \* position of the for loop in sorted_sources
    totals,               \* total_success, total_failed, total_items
    source,               \* source_name of the current run_scraper_with_retry call
    retry_count,
    backoff_time,
    optimal_pages,
    results,              \* value returned by run_scraper_with_retry
    log,                  \* observer: events of the current run_scraper_with_retry call
    metrics0,             \* observer: metrics when the current call started
    appended,             \* observer: every value appended to the buffers, per source
    left,                 \* outcomes a behaviour may still record
    suppliers0,           \* observer: the suppliers table when the round started
    rounds,               \* rounds started so far
    ppc,                  \* position of each process that runs rounds side by side
    pmetrics,             \* the metrics dict each of these processes holds
    writing,              \* processes between open(METRICS_FILE, 'w') and the end of json.dump
    recorded,             \* observer: outcomes recorded and saved, per source
    sawTorn,              \* observer: a reader opened METRICS_FILE while it was being written
    pause_time            \* the wait of the pause between two sources, while it lasts

config == <<SCRAPER_DELAY, SCRAPER_MAX_RETRIES, enabled>>
round == <<rpc, suppliers_map, sorted_sources, idx, totals>>
retry == <<source, retry_count, backoff_time, optimal_pages, results>>
store == <<metrics, file, suppliers>>
registry == <<suppliers0, rounds>>
peers == <<ppc, pmetrics, writing, recorded, sawTorn>>
coordVars == <<store, config, round, retry, log, metrics0, appended, left, registry, peers,
               pause_time>>

\* METRICS_FILE is missing, or holds the empty object.
NoDocument == {}

\* No pause is in progress.
NoPause == <<0, 1>>
NoTotals == [total_success |-> 0, total_failed |-> 0, total_items |-> 0]
NoAppended == [s \in Sources |-> [response_times |-> <<>>, items_counts |-> <<>>]]

\* The processes that may call run_scrapers: the scheduled job and an
\* operator's `run.py scraper`.
Procs == {"scheduled", "manual"}
PeersIdle ==
    /\ ppc = [p \in Procs |-> "idle"] /\ pmetrics = [p \in Procs |-> <<>>]
    /\ writing = {} /\ recorded = [s \in Sources |-> 0] /\ sawTorn = FALSE

\* The Run Coordinator before run_scrapers is called, with an empty metrics file.
CoordIdle ==
    /\ metrics = <<>> /\ file = NoDocument /\ suppliers = {}
    /\ SCRAPER_DELAY = <<1, 1>> /\ SCRAPER_MAX_RETRIES = 0
    /\ enabled = [s \in Sources |-> TRUE]
    /\ rpc = "idle" /\ suppliers_map = <<>> /\ sorted_sources = <<>> /\ idx = 0
    /\ totals = NoTotals
    /\ source = 0 /\ retry_count = 0 /\ backoff_time = <<1, 1>>
    /\ optimal_pages = 0 /\ results = NoNumber
    /\ log = <<>> /\ metrics0 = <<>> /\ appended = NoAppended /\ left = 0
    /\ suppliers0 = {} /\ rounds = 0
    /\ PeersIdle
    /\ pause_time = NoPause

call == <<pc, supplier, n, count_new, count_updated, count_errors, ret>>
session == <<txParts, txAvails, pending, txOpen, poisoned>>
observers == <<parts0, avails0, valid, raised, flushedParts, commitResult>>
replay == <<batch, run>>
ingestVars == <<parts, avails, session, call, now, budget, replay, observers>>
vars == <<ingestVars, coordVars>>

NoRet == <<FALSE, -1>>

\* The Ingestion Pipeline between two calls, on an empty store.
IngestIdle ==
    /\ parts = {} /\ avails = {}
    /\ txParts = {} /\ txAvails = {} /\ pending = <<>>
    /\ txOpen = FALSE /\ poisoned = FALSE
    /\ pc = "idle" /\ supplier = 0 /\ n = 0
    /\ count_new = 0 /\ count_updated = 0 /\ count_errors = 0
    /\ ret = NoRet /\ now = 0 /\ budget = 0
    /\ batch = <<>> /\ run = 0
    /\ parts0 = {} /\ avails0 = {} /\ valid = 0 /\ raised = 0
    /\ flushedParts = 0 /\ commitResult = "none"

\* The item carries a reference and a name (what `valid` counts).
HasBoth(it) ==
    /\ it.reference \notin {Absent, Null, ""}
    /\ it.name \notin {Absent, Null, ""}

\* ------------------------------------------------------ process_results
\* Part(reference=..., name=..., created_at=utcnow()) after db_session.add
\* and flush, which assigns the id.
NewPart(ps, it, t) ==
    [id |-> NextId(ps), reference |-> it.reference, name |-> it.name, created_at |-> t]

\* part.name = item.get('name', part.name)
UpdatePart(p, it) == [p EXCEPT !.name = Get(it, "name", p.name)]

\* Availability(part_id, supplier_id, price=item.get('price'),
\*              in_stock=item.get('in_stock', False), url=item.get('url'))
NewAvail(it, pid, sid) ==
    [part_id |-> pid, supplier_id |-> sid,
     price |-> Get(it, "price", Null),
     in_stock |-> Get(it, "in_stock", "false"),
     url |-> Get(it, "url", Null)]

\* An update that leaves the price alone.
UpdateAvailKeepsPrice(a, it) ==
    [a EXCEPT !.in_stock = Get(it, "in_stock", a.in_stock),
              !.url = Get(it, "url", a.url)]

\* An update that calls item.get without the stored value as default.
UpdateAvailNoDefault(a, it) ==
    [a EXCEPT !.price = Get(it, "price", Null),
              !.in_stock = Get(it, "in_stock", Null),
              !.url = Get(it, "url", Null)]

\* availability.price = item.get('price', availability.price), and so on
UpdateAvail(a, it) ==
    [a EXCEPT !.price = Get(it, "price", a.price),
              !.in_stock = Get(it, "in_stock", a.in_stock),
              !.url = Get(it, "url", a.url)]

\* The session and the counters, as one record the item steps transform.
Cur ==
    [txParts |-> txParts, txAvails |-> txAvails, pending |-> pending,
     poisoned |-> poisoned, count_new |-> count_new,
     count_updated |-> count_updated, count_errors |-> count_errors,
     raised |-> FALSE, flushed |-> 0]

\* except Exception: count_errors += 1; continue
Raise(s) == [s EXCEPT !.count_errors = @ + 1, !.raised = TRUE]

\* The Availability lookup and its insert-or-update, for the Part with id pid.
AvailStage(s, it, sid, pid, fault) ==
    IF fault = "avail_query" THEN Raise(s)
    ELSE LET found == AvailsByKey(s.txAvails, pid, sid) IN
         IF found = {}
         THEN [s EXCEPT !.pending = Append(@, NewAvail(it, pid, sid))]
         ELSE LET a == CHOOSE x \in found : TRUE IN
              [s EXCEPT !.txAvails = (@ \ {a}) \cup {UpdateAvail(a, it)}]

\* db_session.flush() after db_session.add(part): INSERT the Part, then every
\* pending Availability.  A failure rolls the transaction back and leaves the
\* session deactivated (what it held is discarded by the rollback() that has
\* to follow).
FlushNewPart(s, it, sid, t, fault) ==
    IF \/ fault = "flush"
       \/ \E q \in s.txParts : q.reference = it.reference   \* parts.reference is unique
       \/ ~IndexAccepts(s.txAvails, s.pending)
    THEN Raise([s EXCEPT !.poisoned = TRUE, !.txParts = parts, !.txAvails = avails,
                         !.pending = <<>>])
    ELSE LET p == NewPart(s.txParts, it, t)
             s1 == [s EXCEPT !.txParts = @ \cup {p},
                             !.txAvails = InsertAll(@, s.pending),
                             !.pending = <<>>,
                             !.count_new = @ + 1,
                             !.flushed = @ + 1]
         IN AvailStage(s1, it, sid, p.id, fault)

\* The body of the for loop for one item.
ProcessItem(s, it, sid, t, fault) ==
    IF Missing(it) THEN s
    ELSE IF s.poisoned THEN Raise(s)
    ELSE LET found == PartsByRef(s.txParts, it.reference) IN
         IF found = {}
         THEN FlushNewPart(s, it, sid, t, fault)
         ELSE LET p == CHOOSE x \in found : TRUE
                  s1 == [s EXCEPT !.txParts = (@ \ {p}) \cup {UpdatePart(p, it)},
                                  !.count_updated = @ + 1]
              IN AvailStage(s1, it, sid, p.id, fault)

\* count_errors < len(results) // 2
Success(errors, len) == errors < (len \div 2)

\* A rollback that leaves the rows the flushes wrote.
RollbackKeepsFlushed(committed, tx) == tx

\* db_session.rollback(): the table is what was committed; the rows the
\* transaction flushed are gone.
RolledBack(committed, tx) == committed

\* --------------------------------------------------------------- actions
Init ==
    /\ parts = {} /\ avails = {}
    /\ txParts = {} /\ txAvails = {} /\ pending = <<>>
    /\ txOpen = FALSE /\ poisoned = FALSE
    /\ pc = "idle" /\ supplier = 0 /\ n = 0
    /\ count_new = 0 /\ count_updated = 0 /\ count_errors = 0
    /\ ret = NoRet /\ now = 0 /\ budget = MaxItems
    /\ batch = <<>> /\ run = 0
    /\ parts0 = {} /\ avails0 = {} /\ valid = 0 /\ raised = 0
    /\ flushedParts = 0 /\ commitResult = "none"
    /\ CoordIdle

\* process_results(results, supplier) is entered with a non-empty batch.
Enter(sid) ==
    /\ supplier' = sid
    /\ pc' = "loop" /\ ret' = NoRet
    /\ now' = now + 1
    /\ n' = 0
    /\ count_new' = 0 /\ count_updated' = 0 /\ count_errors' = 0
    /\ parts0' = parts /\ avails0' = avails
    /\ valid' = 0 /\ raised' = 0
    /\ flushedParts' = 0 /\ commitResult' = "none"
    /\ UNCHANGED <<parts, avails, session>>
    /\ UNCHANGED coordVars

\* A call of process_results begins.  The items of the batch are drawn one
\* by one as the loop consumes them.
Begin ==
    /\ pc = "idle" /\ run = 0
    /\ now < MaxCalls /\ budget > 0
    /\ \E sid \in SupplierIds : Enter(sid)
    /\ UNCHANGED <<budget, replay>>

\* if not results: return False, 0
BeginEmpty ==
    /\ pc = "idle" /\ run = 0
    /\ \E sid \in SupplierIds : supplier' = sid
    /\ pc' = "done" /\ ret' = <<FALSE, 0>>
    /\ n' = 0
    /\ count_new' = 0 /\ count_updated' = 0 /\ count_errors' = 0
    /\ parts0' = parts /\ avails0' = avails
    /\ valid' = 0 /\ raised' = 0
    /\ flushedParts' = 0 /\ commitResult' = "none"
    /\ UNCHANGED <<parts, avails, session, now, budget, replay>>
    /\ UNCHANGED coordVars

\* One iteration of the for loop, on item `it`, the storage layer doing `fault`.
ItemStepOn(it, fault) ==
    /\ pc = "loop"
    /\ Missing(it) => fault = "none"
    /\ LET s == ProcessItem(Cur, it, supplier, now, fault) IN
        /\ txParts' = s.txParts /\ txAvails' = s.txAvails
        /\ pending' = s.pending /\ poisoned' = s.poisoned
        /\ count_new' = s.count_new /\ count_updated' = s.count_updated
        /\ count_errors' = s.count_errors
        /\ raised' = raised + (IF s.raised THEN 1 ELSE 0)
        /\ flushedParts' = flushedParts + s.flushed
    /\ txOpen' = (txOpen \/ ~Missing(it))
    /\ valid' = valid + (IF HasBoth(it) THEN 1 ELSE 0)
    /\ n' = n + 1
    /\ UNCHANGED <<parts, avails, pc, supplier, ret, now, parts0, avails0, commitResult>>
    /\ UNCHANGED coordVars

ItemStep ==
    /\ run = 0 /\ budget > 0
    /\ \E it \in Items, fault \in Faults : ItemStepOn(it, fault)
    /\ budget' = budget - 1
    /\ UNCHANGED replay

\* The loop has consumed the whole batch: db_session.commit(), its handler
\* and the return.  The commit flushes what is pending and fails when the
\* session is deactivated, when the unique index rejects a row, or when the
\* storage layer fails (env, possible once the session holds a transaction).
CommitWith(env) ==
    /\ pc = "loop" /\ n >= 1
    /\ env => txOpen
    /\ LET failed == env \/ poisoned \/ ~IndexAccepts(txAvails, pending)
           errors == IF failed THEN count_errors + count_new + count_updated
                     ELSE count_errors
           cn == IF failed THEN 0 ELSE count_new
           cu == IF failed THEN 0 ELSE count_updated
       IN /\ parts' = IF failed THEN RolledBack(parts, txParts) ELSE txParts
          /\ avails' = IF failed THEN RolledBack(avails, txAvails)
                        ELSE InsertAll(txAvails, pending)
          /\ count_errors' = errors /\ count_new' = cn /\ count_updated' = cu
          /\ ret' = <<Success(errors, n), cn + cu>>
          /\ commitResult' = IF env THEN "env_failed"
                             ELSE IF failed THEN "failed" ELSE "ok"
    /\ txParts' = parts' /\ txAvails' = avails' /\ pending' = <<>>
    /\ txOpen' = FALSE /\ poisoned' = FALSE
    /\ pc' = "done"
    /\ UNCHANGED <<supplier, n, now, budget, parts0, avails0, valid, raised, flushedParts>>
    /\ UNCHANGED coordVars

Commit ==
    /\ run = 0
    /\ \E env \in BOOLEAN : CommitWith(env)
    /\ UNCHANGED replay

\* The caller has the returned pair; the call's locals are gone.
Return ==
    /\ pc = "done" /\ run = 0
    /\ pc' = "idle" /\ supplier' = 0 /\ n' = 0
    /\ count_new' = 0 /\ count_updated' = 0 /\ count_errors' = 0
    /\ ret' = NoRet
    /\ parts0' = {} /\ avails0' = {} /\ valid' = 0 /\ raised' = 0
    /\ flushedParts' = 0 /\ commitResult' = "none"
    /\ UNCHANGED <<parts, avails, session, now, budget, replay>>
    /\ UNCHANGED coordVars

Next == Begin \/ BeginEmpty \/ ItemStep \/ Commit \/ Return

Spec == Init /\ [][Next]_vars

\* ------------------------------------------- the same batch, run twice
\* After any calls of Spec, process_results(B, S) is called twice in
\* succession on a storage layer that works (it raises only what its
\* constraints raise).  The first run records the batch it consumes, the
\* second consumes the recorded batch.
BeginFirst ==
    /\ pc = "idle" /\ run = 0 /\ budget > 0
    /\ \E sid \in SupplierIds : Enter(sid)
    /\ run' = 1 /\ batch' = <<>>
    /\ UNCHANGED budget

RecordStep ==
    /\ run = 1 /\ budget > 0
    /\ \E it \in Items :
        /\ ItemStepOn(it, "none")
        /\ batch' = Append(batch, it)
    /\ budget' = budget - 1
    /\ UNCHANGED run

CommitFirst ==
    /\ run = 1
    /\ CommitWith(FALSE)
    /\ UNCHANGED replay

BeginSecond ==
    /\ pc = "done" /\ run = 1
    /\ Enter(supplier)
    /\ run' = 2
    /\ UNCHANGED <<budget, batch>>

ReplayStep ==
    /\ run = 2 /\ n < Len(batch)
    /\ ItemStepOn(batch[n + 1], "none")
    /\ UNCHANGED <<budget, replay>>

CommitSecond ==
    /\ run = 2 /\ n = Len(batch)
    /\ CommitWith(FALSE)
    /\ UNCHANGED replay

NextTwice ==
    \/ Next
    \/ BeginFirst \/ RecordStep \/ CommitFirst
    \/ BeginSecond \/ ReplayStep \/ CommitSecond

InitTwice ==
    /\ parts = {} /\ avails = {}
    /\ txParts = {} /\ txAvails = {} /\ pending = <<>>
    /\ txOpen = FALSE /\ poisoned = FALSE
    /\ pc = "idle" /\ supplier = 0 /\ n = 0
    /\ count_new = 0 /\ count_updated = 0 /\ count_errors = 0
    /\ ret = NoRet /\ now = 0 /\ budget = MaxTwiceItems
    /\ batch = <<>> /\ run = 0
    /\ parts0 = {} /\ avails0 = {} /\ valid = 0 /\ raised = 0
    /\ flushedParts = 0 /\ commitResult = "none"
    /\ CoordIdle

SpecTwice == InitTwice /\ [][NextTwice]_vars

\* ---------------------------------------------------------------- claims
(***************************************************************************)
(* SpecMetrics: outcomes recorded for the sources, one after the other,    *)
(* with latencies and yields on both sides of the thresholds.              *)
(* SpecBuffers: a long run of outcomes of one source; the k-th value       *)
(* appended to a buffer is k.                                              *)
(***************************************************************************)

\* (response_time in seconds, len(results)) of a successful attempt.
SuccessInputs == {<<1, 10>>, <<30, 10>>, <<1, 100>>}

\* The coordinator and the retry engine are not running.
RoundIdle ==
    /\ rpc = "idle" /\ suppliers_map = <<>> /\ sorted_sources = <<>> /\ idx = 0
    /\ totals = NoTotals
    /\ source = 0 /\ retry_count = 0 /\ backoff_time = <<1, 1>>
    /\ optimal_pages = 0 /\ results = NoNumber
    /\ log = <<>> /\ metrics0 = <<>>
    /\ suppliers0 = {} /\ rounds = 0
    /\ PeersIdle
    /\ pause_time = NoPause

\* update_source_metrics(metrics, src, success, ...) outside a round.
Record(src, success, response_time, items_count, error) ==
    /\ left > 0
    /\ metrics' = update_source_metrics(metrics, src, success, response_time,
                                        items_count, error, SCRAPER_DELAY)
    /\ appended' =
         IF success
         THEN [appended EXCEPT ![src].response_times = Append(@, response_time),
                               ![src].items_counts = Append(@, items_count)]
         ELSE appended
    /\ left' = left - 1
    /\ UNCHANGED <<file, suppliers, config, round, retry, log, metrics0>>
    /\ UNCHANGED <<ingestVars, registry, peers, pause_time>>

RecordSuccess ==
    \E src \in Sources, v \in SuccessInputs : Record(src, TRUE, v[1], v[2], Null)

RecordFailure ==
    \E src \in Sources, k \in ErrorKinds : Record(src, FALSE, NoNumber, NoNumber, k)

NextMetrics == RecordSuccess \/ RecordFailure

InitMetrics ==
    /\ IngestIdle /\ RoundIdle
    /\ metrics = <<>> /\ file = NoDocument /\ suppliers = {}
    /\ SCRAPER_DELAY \in BaseDelays /\ SCRAPER_MAX_RETRIES = 0
    /\ enabled = [s \in Sources |-> TRUE]
    /\ appended = NoAppended /\ left = MaxOutcomes

SpecMetrics == InitMetrics /\ [][NextMetrics]_vars

StampSuccess ==
    Record(1, TRUE, Len(appended[1].response_times) + 1,
           Len(appended[1].items_counts) + 1, Null)

StampFailure == \E k \in ErrorKinds : Record(1, FALSE, NoNumber, NoNumber, k)

NextBuffers == StampSuccess \/ StampFailure

InitBuffers ==
    /\ IngestIdle /\ RoundIdle
    /\ metrics = <<>> /\ file = NoDocument /\ suppliers = {}
    /\ SCRAPER_DELAY = <<1, 1>> /\ SCRAPER_MAX_RETRIES = 0
    /\ enabled = [s \in Sources |-> TRUE]
    /\ appended = NoAppended /\ left = MaxBufferRuns

SpecBuffers == InitBuffers /\ [][NextBuffers]_vars

(***************************************************************************)
(* SpecRound: one round of run_scrapers.  The metrics file holds what      *)
(* earlier rounds recorded.  process_results is taken by what it returns   *)
(* to run_scrapers; it does not touch the metrics or the schedule.         *)
(***************************************************************************)

\* Largest value of config.SCRAPER_MAX_RETRIES a behaviour is started with.
MaxRetries == 3

\* time.time() - start_time of a successful attempt, in seconds.
RoundLatency == 10

\* len(results) of a successful attempt.
ResultSizes == {0, 60}

SuccessOutcome == <<TRUE, RoundLatency, 60, Null>>
FailureOutcome == <<FALSE, NoNumber, NoNumber, "TransientFetchError">>

\* What earlier rounds recorded for a source: nothing, one failure, six
\* successes, eleven successes.
Histories ==
    {<<>>, <<FailureOutcome>>,
     [i \in 1..6 |-> SuccessOutcome], [i \in 1..11 |-> SuccessOutcome]}

RECURSIVE Recorded(_, _, _, _)
\* metrics after the outcomes of h are recorded for src, from m.
Recorded(m, src, h, delay) ==
    IF h = <<>> THEN m
    ELSE Recorded(update_source_metrics(m, src, h[1][1], h[1][2], h[1][3], h[1][4], delay),
                  src, Tail(h), delay)

RECURSIVE RecordedAll(_, _, _)
\* metrics after the histories hs[1], ..., hs[k] are recorded.
RecordedAll(hs, k, delay) ==
    IF k = 0 THEN <<>>
    ELSE Recorded(RecordedAll(hs, k - 1, delay), k, hs[k], delay)

\* json.dump(metrics, f): the document is the object whose members are the
\* pairs of a source name and its entry.
json_dump(m) == {<<s, m[s]>> : s \in DOMAIN m}

\* json.load(f): the dict that maps the name of each member to its value.
json_load(doc) ==
    [s \in {member[1] : member \in doc} |->
        (CHOOSE member \in doc : member[1] = s)[2]]

\* load_metrics(): {} when the file is missing
load_metrics(doc) == json_load(doc)

\* save_metrics(metrics)
save_metrics(m) == json_dump(m)

\* A sort that puts a source before the sources of equal priority.
InsertBeforeEqual(s, x, prio) ==
    LET before == SelectSeq(s, LAMBDA y : RLess(prio[y], prio[x]))
        after == SelectSeq(s, LAMBDA y : ~RLess(prio[y], prio[x]))
    IN before \o <<x>> \o after

\* One step of sorted(): x goes after the sources whose priority is not
\* greater than its own.
InsertStable(s, x, prio) ==
    LET before == SelectSeq(s, LAMBDA y : RLeq(prio[y], prio[x]))
        after == SelectSeq(s, LAMBDA y : ~RLeq(prio[y], prio[x]))
    IN before \o <<x>> \o after

RECURSIVE SortedByPriority(_, _)
\* sorted(sources, key=lambda s: priorities.get(s['name'], 5))
SortedByPriority(srcs, prio) ==
    IF srcs = <<>> THEN <<>>
    ELSE InsertStable(SortedByPriority(SubSeq(srcs, 1, Len(srcs) - 1), prio),
                      srcs[Len(srcs)], prio)

\* [s for s in config.SOURCES if s.get('enabled', False)]
EnabledSources == SelectSeq([i \in 1..NumSources |-> i], LAMBDA s : enabled[s])

\* A loop that goes on after every failure while attempts remain.
RetriesAfterImportError(kind, count, max_retries) ==
    kind # "ok" /\ count <= max_retries

\* A loop that goes on after a success while attempts remain.
RetriesAfterSuccess(kind, count, max_retries) ==
    kind # "import" /\ count <= max_retries

\* Whether the while loop goes round again after the try block.
Retries(kind, count, max_retries) ==
    kind = "error" /\ count <= max_retries

\* A retry engine that writes the file after a success only.
SavesOnSuccess(kind, count, max_retries) == kind = "ok"

\* Whether the try block or its handler calls save_metrics.
Saves(kind, count, max_retries) ==
    kind \in {"ok", "import"} \/ count > max_retries

\* A backoff that starts at twice the delay.
BackoffFromDouble(backoff, count) == RTimes(backoff, 2 ^ count)

\* wait_time = backoff_time * (2 ** (retry_count - 1))
BackoffWait(backoff, count) ==
    IF count >= 1 THEN RTimes(backoff, 2 ^ (count - 1))
    ELSE Rat(backoff[1], backoff[2] * 2 ^ (1 - count))

\* A backoff seeded at the configured delay.
TuningDelayStatic(m, src, delay) == delay

\* metrics.get(source_name, {}).get('optimal_delay', config.SCRAPER_DELAY)
TuningDelay(m, src, delay) ==
    IF src \in DOMAIN m THEN m[src].optimal_delay ELSE delay

\* metrics.get(source_name, {}).get('optimal_pages', 3)
TuningPages(m, src) ==
    IF src \in DOMAIN m THEN m[src].optimal_pages ELSE 3

\* What process_results may return for a non-empty batch of `size` items.
ProcessReturns(size) == {<<TRUE, size>>, <<FALSE, 0>>}

\* ------------------------------------------------------------- registry
\* A row of the suppliers table: the primary key and the name (unique=True).
Row(i, s) == [id |-> i, name |-> s]
Names(rows) == {r.name : r \in rows}

\* db_session.add(Supplier(name=...)) for each name of `names`, then the
\* flush: the ids follow the order of the adds.
RECURSIVE AddSuppliers(_, _)
AddSuppliers(rows, names) ==
    IF names = <<>> THEN rows
    ELSE AddSuppliers(rows \cup {Row(NextId(rows), Head(names))}, Tail(names))

\* The tables earlier rounds can have left: one row per name, ids from 1.
SupplierTables ==
    {t \in SUBSET [id : SupplierIds, name : Sources] :
        /\ Cardinality(Names(t)) = Cardinality(t)
        /\ {r.id : r \in t} = 1..Cardinality(t)}

\* What the storage layer may do to init_db and to ensure_suppliers_exist's
\* query, besides working.
DbFaults == {"none", "query", "commit"}

\* A registration that creates a Supplier for every source without a row.
CreatesDisabledToo(name, existing, en) == name \notin existing

\* elif source_config.get('enabled', False): of a name not in existing_suppliers
Creates(name, existing, en) == name \notin existing /\ en[name]

\* A loop that runs every source of the schedule.
HasSupplierAlways(name, smap) == TRUE

\* source_config['name'] in suppliers_map
HasSupplier(name, smap) == name \in DOMAIN smap

\* A round that goes on whatever the map holds.
NoSupplierNever(smap) == FALSE

\* if not suppliers_map:
NoSupplier(smap) == DOMAIN smap = {}

\* A test that lets None through.
TruthyAlways(r) == TRUE

\* if results: (a list of `r` items, or None)
Truthy(r) == r > 0

\* A round starts with any table and any history of the sources; the rounds
\* on a table that lacks a row start from an empty metrics file.
InitRound ==
    /\ IngestIdle /\ RoundIdle
    /\ SCRAPER_DELAY = <<1, 1>>
    /\ SCRAPER_MAX_RETRIES \in 0..MaxRetries
    /\ enabled \in [Sources -> BOOLEAN]
    /\ suppliers \in SupplierTables
    /\ metrics = <<>>
    /\ \E hs \in [Sources -> Histories] :
          /\ file = save_metrics(RecordedAll(hs, NumSources, SCRAPER_DELAY))
          /\ Names(suppliers) # Sources => file = NoDocument
    /\ appended = NoAppended /\ left = 0

ingestButTx == <<parts, avails, txParts, txAvails, pending, poisoned, call, now,
                 budget, replay, observers>>

\* init_db(): the query of the suppliers table and, when it is empty, a
\* Supplier for every enabled source and one commit.  Nothing catches what
\* the query or the commit raises: the exception leaves run_scrapers, and
\* the process closes its session.
InitDb ==
    /\ rpc = "idle"
    /\ suppliers0' = suppliers /\ rounds' = rounds + 1
    /\ \E fault \in DbFaults :
          /\ fault = "commit" => suppliers = {}
          /\ IF fault = "none"
             THEN /\ suppliers' = IF suppliers = {} THEN AddSuppliers({}, EnabledSources)
                                  ELSE suppliers
                  /\ txOpen' = (suppliers # {})
                  /\ rpc' = "registering"
             ELSE /\ suppliers' = suppliers
                  /\ txOpen' = FALSE
                  /\ rpc' = "raised"
    /\ UNCHANGED <<metrics, file, config, suppliers_map, sorted_sources, idx, totals,
                   retry, log, metrics0, appended, left>>
    /\ UNCHANGED <<ingestButTx, peers, pause_time>>

\* ensure_suppliers_exist() and the test of its result.  The query is
\* outside any try; each creation has its own commit and its own handler:
\* `failing` are the sources whose Supplier cannot be committed.
EnsureSuppliers ==
    /\ rpc = "registering"
    /\ \E fault \in DbFaults \ {"commit"} :
       LET existing == Names(suppliers)
           missing == {s \in Sources : Creates(s, existing, enabled)}
       IN \E failing \in SUBSET missing :
          /\ fault = "query" => failing = {}
          /\ IF fault = "query"
             THEN /\ UNCHANGED <<suppliers, suppliers_map>>
                  /\ txOpen' = FALSE
                  /\ rpc' = "raised"
             ELSE /\ suppliers' =
                        AddSuppliers(suppliers,
                                     SelectSeq([i \in 1..NumSources |-> i],
                                               LAMBDA s : s \in missing \ failing))
                  /\ suppliers_map' =
                        [s \in Names(suppliers') |->
                            (CHOOSE r \in suppliers' : r.name = s).id]
                  /\ txOpen' = (missing = {})
                  /\ rpc' = IF NoSupplier(suppliers_map') THEN "aborted" ELSE "load"
    /\ UNCHANGED <<metrics, file, config, sorted_sources, idx, totals, retry,
                   log, metrics0, appended, left>>
    /\ UNCHANGED <<ingestButTx, registry, peers, pause_time>>

\* load_metrics(), the priorities and the sort.
Schedule ==
    /\ rpc = "load"
    /\ metrics' = load_metrics(file)
    /\ LET priorities == [s \in Sources |-> get_source_priority(metrics', s)]
       IN sorted_sources' = SortedByPriority(EnabledSources, priorities)
    /\ idx' = 1 /\ totals' = NoTotals
    /\ rpc' = "pick"
    /\ UNCHANGED <<file, suppliers, config, suppliers_map, retry, log, metrics0,
                   appended, left>>
    /\ UNCHANGED <<ingestVars, registry, peers, pause_time>>

\* The for loop meets a source without a supplier: continue.
SkipSource ==
    /\ rpc = "pick" /\ idx <= Len(sorted_sources)
    /\ ~HasSupplier(sorted_sources[idx], suppliers_map)
    /\ idx' = idx + 1
    /\ UNCHANGED <<store, config, rpc, suppliers_map, sorted_sources, totals,
                   retry, log, metrics0, appended, left>>
    /\ UNCHANGED <<ingestVars, registry, peers, pause_time>>

\* run_scraper_with_retry is called: it reads the tuning of the source.
StartRun ==
    /\ rpc = "pick" /\ idx <= Len(sorted_sources)
    /\ HasSupplier(sorted_sources[idx], suppliers_map)
    /\ source' = sorted_sources[idx]
    /\ backoff_time' = TuningDelay(metrics, source', SCRAPER_DELAY)
    /\ optimal_pages' = TuningPages(metrics, source')
    /\ retry_count' = 0 /\ results' = NoNumber
    /\ log' = log \o << <<"start", source'>> >>
    /\ metrics0' = metrics
    /\ rpc' = "attempt"
    /\ UNCHANGED <<store, config, suppliers_map, sorted_sources, idx, totals,
                   appended, left>>
    /\ UNCHANGED <<ingestVars, registry, peers, pause_time>>

\* The events of the log since run_scraper_with_retry was last called.
SinceStart(events) ==
    LET starts == {i \in DOMAIN events : events[i][1] = "start"}
    IN IF starts = {} THEN <<>> ELSE SubSeq(events, MaxOf(starts), Len(events))

\* Seconds between start_time = time.time(), taken before the while loop,
\* and the end of `events`: an adapter invocation lasts RoundLatency, a
\* sleep lasts its wait (whole seconds for the delays of these rounds).
RECURSIVE Elapsed(_)
Elapsed(events) ==
    IF events = <<>> THEN 0
    ELSE Elapsed(Tail(events))
         + (IF Head(events)[1] = "invoke" THEN RoundLatency
            ELSE IF Head(events)[1] = "sleep" THEN Head(events)[2][1] \div Head(events)[2][2]
            ELSE 0)

\* response_time = time.time() - start_time, when the invocation that
\* follows `events` has returned.
ResponseTime(events) == Elapsed(SinceStart(events)) + RoundLatency

\* One passage through the while loop body: the module is imported, scrape
\* is called when `invoked`, and the try block ends as `kind` says.
Attempt(kind, invoked, size) ==
    /\ rpc = "attempt"
    /\ kind # "import" => invoked
    /\ LET count == IF kind = "error" THEN retry_count + 1 ELSE retry_count
           m1 == IF kind = "ok"
                 THEN update_source_metrics(metrics, source, TRUE, ResponseTime(log),
                                            size, Null, SCRAPER_DELAY)
                 ELSE update_source_metrics(metrics, source, FALSE, NoNumber, NoNumber,
                                            IF kind = "import" THEN "ImportError"
                                            ELSE "TransientFetchError", SCRAPER_DELAY)
           again == Retries(kind, count, SCRAPER_MAX_RETRIES)
           saved == Saves(kind, count, SCRAPER_MAX_RETRIES)
           value == IF kind = "ok" THEN size ELSE NoNumber
       IN /\ retry_count' = count
          /\ metrics' = m1
          /\ file' = IF saved THEN save_metrics(m1) ELSE file
          /\ results' = IF again THEN results ELSE value
          /\ rpc' = IF again THEN "sleep" ELSE "returned"
          /\ log' = log
                \o (IF invoked THEN << <<"invoke", optimal_pages>> >> ELSE <<>>)
                \o << <<kind, 0>>, <<"record", kind = "ok">> >>
                \o (IF saved THEN << <<"save", 0>> >> ELSE <<>>)
                \o (IF again THEN <<>> ELSE << <<"return", value>> >>)
    /\ UNCHANGED <<suppliers, config, suppliers_map, sorted_sources, idx, totals,
                   source, backoff_time, optimal_pages, metrics0, appended, left>>
    /\ UNCHANGED <<ingestVars, registry, peers, pause_time>>

\* scrape returns a list.
AttemptSucceeds ==
    /\ rpc = "attempt"
    /\ \E size \in ResultSizes : Attempt("ok", TRUE, size)

\* import_module, or scrape, raises ImportError.
AttemptImportError ==
    /\ rpc = "attempt"
    /\ \E invoked \in BOOLEAN : Attempt("import", invoked, 0)

\* scrape raises another exception.
AttemptFails ==
    /\ rpc = "attempt"
    /\ Attempt("error", TRUE, 0)

\* time.sleep(wait_time)
Sleep ==
    /\ rpc = "sleep"
    /\ log' = log \o << <<"sleep", BackoffWait(backoff_time, retry_count)>> >>
    /\ rpc' = "attempt"
    /\ UNCHANGED <<store, config, suppliers_map, sorted_sources, idx, totals,
                   retry, metrics0, appended, left>>
    /\ UNCHANGED <<ingestVars, registry, peers, pause_time>>

\* if results: process_results(results, supplier) and the totals.  The
\* call ends with the session in a transaction when it returns through the
\* log line that reads supplier.name.
\* Totals that take the items of the successful ingests only.
TallyItemsOfSuccess(t, success, processed_items) ==
    [total_success |-> t.total_success + (IF success THEN 1 ELSE 0),
     total_failed |-> t.total_failed + (IF success THEN 0 ELSE 1),
     total_items |-> t.total_items + (IF success THEN processed_items ELSE 0)]

\* total_items += processed_items; then total_success or total_failed += 1.
Tally(t, success, processed_items) ==
    [total_success |-> t.total_success + (IF success THEN 1 ELSE 0),
     total_failed |-> t.total_failed + (IF success THEN 0 ELSE 1),
     total_items |-> t.total_items + processed_items]

\* jitter = random.uniform(0.8, 1.2): both ends and the middle of the interval.
Jitters == {<<4, 5>>, <<1, 1>>, <<6, 5>>}

\* The pause computed from the configured delay, whatever the fetch tuned.
PauseTimeStatic(m, name, delay, jitter) == RProduct(delay, jitter)

\* optimal_delay = metrics.get(name, {}).get('optimal_delay', config.SCRAPER_DELAY);
\* pause_time = optimal_delay * jitter, read from the metrics as the fetch left them.
PauseTime(m, name, delay, jitter) ==
    RProduct(IF name \in DOMAIN m THEN m[name].optimal_delay ELSE delay, jitter)

ProcessResults ==
    /\ rpc = "returned" /\ Truthy(results)
    /\ \E r \in ProcessReturns(results) :
          /\ totals' = Tally(totals, r[1], r[2])
          /\ txOpen' = TRUE
    /\ idx' = idx + 1 /\ rpc' = "pacing"
    /\ \E jitter \in Jitters : pause_time' = PauseTime(metrics, source, SCRAPER_DELAY, jitter)
    /\ UNCHANGED <<store, config, suppliers_map, sorted_sources, retry, log,
                   metrics0, appended, left>>
    /\ UNCHANGED <<ingestButTx, registry, peers>>

\* else: total_failed += 1
CountFailure ==
    /\ rpc = "returned" /\ ~Truthy(results)
    /\ totals' = [totals EXCEPT !.total_failed = @ + 1]
    /\ idx' = idx + 1 /\ rpc' = "pacing"
    /\ \E jitter \in Jitters : pause_time' = PauseTime(metrics, source, SCRAPER_DELAY, jitter)
    /\ UNCHANGED <<store, config, suppliers_map, sorted_sources, retry, log,
                   metrics0, appended, left>>
    /\ UNCHANGED <<ingestVars, registry, peers>>

\* time.sleep(pause_time) after the source, then the next turn of the loop.
Pace ==
    /\ rpc = "pacing"
    /\ rpc' = "pick"
    /\ pause_time' = NoPause
    /\ UNCHANGED <<store, config, suppliers_map, sorted_sources, idx, totals,
                   retry, log, metrics0, appended, left>>
    /\ UNCHANGED <<ingestVars, registry, peers>>

\* The for loop is over: the summary is logged.
Finish ==
    /\ rpc = "pick" /\ idx > Len(sorted_sources)
    /\ rpc' = "finished"
    /\ UNCHANGED <<store, config, suppliers_map, sorted_sources, idx, totals,
                   retry, log, metrics0, appended, left>>
    /\ UNCHANGED <<ingestVars, registry, peers, pause_time>>

NextRound ==
    \/ InitDb \/ EnsureSuppliers \/ Schedule \/ SkipSource \/ StartRun
    \/ AttemptSucceeds \/ AttemptImportError \/ AttemptFails \/ Sleep
    \/ ProcessResults \/ CountFailure \/ Pace \/ Finish

SpecRound == InitRound /\ [][NextRound]_vars

\* --------------------------------------- the round with its ingestions
\* Items the adapters return in a behaviour of SpecRun, all sources together.
MaxRunItems == 2

\* A round on any suppliers table, every source enabled, one retry, an
\* empty metrics file and an empty store.
InitRun ==
    /\ IngestIdle /\ RoundIdle
    /\ SCRAPER_DELAY = <<1, 1>> /\ SCRAPER_MAX_RETRIES = 1
    /\ enabled = [s \in Sources |-> TRUE]
    /\ suppliers \in SupplierTables
    /\ metrics = <<>> /\ file = NoDocument
    /\ appended = NoAppended /\ left = MaxRunItems

\* scrape returns a list of `size` items; process_results draws them later.
FetchBatch ==
    /\ rpc = "attempt"
    /\ \E size \in 0..left : Attempt("ok", TRUE, size)

\* if results: process_results(results, supplier) is called.  A value that
\* passes the test without holding an item leaves by `if not results`.
BeginIngest ==
    /\ rpc = "returned" /\ pc = "idle"
    /\ Truthy(results)
    /\ IF results > 0
       THEN /\ Enter(suppliers_map[source])
            /\ UNCHANGED <<budget, replay>>
       ELSE /\ supplier' = suppliers_map[source]
            /\ pc' = "done" /\ ret' = <<FALSE, 0>>
            /\ UNCHANGED <<parts, avails, session, n, count_new, count_updated,
                           count_errors, now, budget, replay, observers>>
            /\ UNCHANGED coordVars

\* One iteration of the for loop on the next item of the batch.
IngestItem ==
    /\ rpc = "returned" /\ n < results
    /\ \E it \in Items, fault \in Faults : ItemStepOn(it, fault)
    /\ UNCHANGED <<budget, replay>>

\* The batch is consumed: the commit.
IngestCommit ==
    /\ rpc = "returned" /\ n = results
    /\ Commit

\* The log line of the end of process_results reads supplier.name, which
\* the commit or the rollback has expired: the session loads it in a new
\* transaction.  Then the return, the totals of the round.
EndIngest ==
    /\ rpc = "returned" /\ pc = "done"
    /\ totals' = Tally(totals, ret[1], ret[2])
    /\ log' = log \o << <<"ingested", ret[2]>> >>
    /\ txOpen' = TRUE
    /\ pc' = "idle" /\ supplier' = 0 /\ n' = 0
    /\ count_new' = 0 /\ count_updated' = 0 /\ count_errors' = 0
    /\ ret' = NoRet
    /\ left' = left - results
    /\ idx' = idx + 1 /\ rpc' = "pacing"
    /\ \E jitter \in Jitters : pause_time' = PauseTime(metrics, source, SCRAPER_DELAY, jitter)
    /\ UNCHANGED <<store, config, suppliers_map, sorted_sources, retry,
                   metrics0, appended, registry, peers>>
    /\ UNCHANGED <<parts, avails, txParts, txAvails, pending, poisoned, now, budget,
                   replay, observers>>

NextRun ==
    \/ InitDb \/ EnsureSuppliers \/ Schedule \/ SkipSource \/ StartRun
    \/ FetchBatch \/ AttemptImportError \/ AttemptFails \/ Sleep
    \/ BeginIngest \/ IngestItem \/ IngestCommit \/ EndIngest
    \/ CountFailure \/ Pace \/ Finish

SpecRun == InitRun /\ [][NextRun]_vars

\* ---------------------------------------------------------- cancellation
\* Handlers that catch the interrupt as they catch a failure: the retry
\* loop and the loop of the sources go on.
InterruptSwallowed(position) == IF position = "sleep" THEN "attempt" ELSE "pick"

\* Where KeyboardInterrupt leads from a time.sleep: the handlers of
\* run_scraper_with_retry and of process_results catch Exception, which
\* KeyboardInterrupt is not, and run_scrapers has none: the round is left.
AfterInterrupt(position) == "cancelled"

\* KeyboardInterrupt is raised in time.sleep, in the backoff of
\* run_scraper_with_retry or in the pause of run_scrapers.  It reaches the
\* caller, whose finally clause removes the session: db_session.remove()
\* rolls back what the session holds.
Cancel ==
    /\ rpc \in {"sleep", "pacing"}
    /\ rpc' = AfterInterrupt(rpc)
    /\ log' = log \o << <<"interrupt", 0>> >>
    /\ txParts' = RolledBack(parts, txParts) /\ txAvails' = RolledBack(avails, txAvails)
    /\ pending' = <<>> /\ txOpen' = FALSE /\ poisoned' = FALSE
    /\ UNCHANGED <<store, config, suppliers_map, sorted_sources, idx, totals,
                   retry, metrics0, appended, left, registry, peers, pause_time>>
    /\ UNCHANGED <<parts, avails, call, now, budget, replay, observers>>

NextCancel == NextRun \/ Cancel

SpecCancel == InitRun /\ [][NextCancel]_vars

\* ------------------------------------------- registration, round after round
\* Rounds started so far in a behaviour of SpecRegistry.
MaxRounds == 3

\* A fresh database; the configuration enables any of the sources.
InitRegistry ==
    /\ IngestIdle /\ RoundIdle
    /\ SCRAPER_DELAY = <<1, 1>> /\ SCRAPER_MAX_RETRIES = 0
    /\ enabled \in [Sources -> BOOLEAN]
    /\ suppliers = {}
    /\ metrics = <<>> /\ file = NoDocument
    /\ appended = NoAppended /\ left = 0

\* The process of the round is over (registration is all these behaviours
\* follow); the next process starts with a new session, after the operator
\* may have edited the 'enabled' flags of config.SOURCES.
NextProcess ==
    /\ rpc \in {"load", "aborted", "raised"}
    /\ rounds < MaxRounds
    /\ rpc' = "idle" /\ suppliers_map' = <<>>
    /\ enabled' \in [Sources -> BOOLEAN]
    /\ suppliers0' = suppliers
    /\ txOpen' = FALSE
    /\ UNCHANGED <<store, SCRAPER_DELAY, SCRAPER_MAX_RETRIES, sorted_sources, idx,
                   totals, retry, log, metrics0, appended, left, rounds>>
    /\ UNCHANGED <<ingestButTx, peers, pause_time>>

NextRegistry == InitDb \/ EnsureSuppliers \/ NextProcess

SpecRegistry == InitRegistry /\ [][NextRegistry]_vars

\* ------------------------------------------------- rounds side by side
\* Outcomes the processes of a behaviour of SpecPeers record, all together.
MaxPeerOutcomes == 3

\* Two processes, none in a round, an empty metrics file.
InitPeers ==
    /\ IngestIdle /\ RoundIdle
    /\ SCRAPER_DELAY = <<1, 1>> /\ SCRAPER_MAX_RETRIES = 0
    /\ enabled = [s \in Sources |-> TRUE]
    /\ suppliers = {}
    /\ metrics = <<>> /\ file = NoDocument
    /\ appended = NoAppended /\ left = MaxPeerOutcomes

\* What open(METRICS_FILE, 'r') and json.load give while `writers` are
\* between their open(METRICS_FILE, 'w'), which truncates the file, and the
\* end of their json.dump: the text is not a document, json.load raises and
\* the handler returns {}.
ReadFile(doc, writers) == IF writers = {} THEN load_metrics(doc) ELSE <<>>

peerRest == <<metrics, suppliers, config, round, retry, log, metrics0, appended, registry,
              pause_time>>

\* Process p calls run_scrapers: nothing looks for a round in progress.
\* The round loads the metrics into its own dict.
PStart(p) ==
    /\ ppc[p] = "idle"
    /\ ppc' = [ppc EXCEPT ![p] = "running"]
    /\ pmetrics' = [pmetrics EXCEPT ![p] = ReadFile(file, writing)]
    /\ UNCHANGED <<file, left, writing, recorded, sawTorn, peerRest>>
    /\ UNCHANGED ingestVars

\* The round of p records the outcome of a run in its dict and calls
\* save_metrics, which opens the file for writing.
PRecord(p, src, kind) ==
    /\ ppc[p] = "running" /\ left > 0
    /\ pmetrics' =
          [pmetrics EXCEPT ![p] =
              IF kind = "ok"
              THEN update_source_metrics(@, src, TRUE, RoundLatency, 60, Null,
                                         SCRAPER_DELAY)
              ELSE update_source_metrics(@, src, FALSE, NoNumber, NoNumber,
                                         "ImportError", SCRAPER_DELAY)]
    /\ writing' = writing \cup {p}
    /\ recorded' = [recorded EXCEPT ![src] = @ + 1]
    /\ ppc' = [ppc EXCEPT ![p] = "saving"]
    /\ left' = left - 1
    /\ UNCHANGED <<file, sawTorn, peerRest>>
    /\ UNCHANGED ingestVars

\* json.dump of p's dict ends and the file is closed.
PSaved(p) ==
    /\ ppc[p] = "saving"
    /\ file' = save_metrics(pmetrics[p])
    /\ writing' = writing \ {p}
    /\ ppc' = [ppc EXCEPT ![p] = "running"]
    /\ UNCHANGED <<pmetrics, left, recorded, sawTorn, peerRest>>
    /\ UNCHANGED ingestVars

\* The round of p is over.
PFinish(p) ==
    /\ ppc[p] = "running"
    /\ ppc' = [ppc EXCEPT ![p] = "idle"]
    /\ UNCHANGED <<file, pmetrics, left, writing, recorded, sawTorn, peerRest>>
    /\ UNCHANGED ingestVars

\* generate_metrics_report's load_metrics reads the file.
Report ==
    /\ sawTorn' = (sawTorn \/ writing # {})
    /\ UNCHANGED <<file, ppc, pmetrics, left, writing, recorded, peerRest>>
    /\ UNCHANGED ingestVars

Start == \E p \in Procs : PStart(p)
RecordOutcome == \E p \in Procs, src \in Sources, kind \in {"ok", "import"} : PRecord(p, src, kind)
Saved == \E p \in Procs : PSaved(p)
End == \E p \in Procs : PFinish(p)

NextPeers == Start \/ RecordOutcome \/ Saved \/ End \/ Report

SpecPeers == InitPeers /\ [][NextPeers]_vars

CommitFailed == pc = "done" /\ commitResult \in {"failed", "env_failed"}
CommitOk == pc = "done" /\ commitResult = "ok"

\* C1: when the final commit of process_results fails, the committed tables
\* after the call are the committed tables before it: no Part and no
\* Availability of the batch is visible, flushed Parts included.
C1_FailedCommitRestoresStore ==
    CommitFailed => parts = parts0 /\ avails = avails0

\* A call whose commit failed after its flushes had INSERTed Part rows.
C1_Witness == CommitFailed /\ flushedParts > 0

\* C2 (as claimed): when the final commit fails, the call returns (False, 0).
C2_FailedCommitReturnsFalseZero ==
    CommitFailed => ret = <<FALSE, 0>>

\* C3 (as claimed): the committed tables hold at most one Part per reference
\* and one Availability per (part, supplier), and the pipeline's lookup
\* before insert ensures it: the session never holds, flushed or pending,
\* two Availability rows of one pair for the unique index to reject.
UniqueRows(ps, as) ==
    /\ \A p, q \in ps : p.reference = q.reference => p = q
    /\ \A a, b \in as : a.part_id = b.part_id /\ a.supplier_id = b.supplier_id => a = b

C3_UniqueByLookup ==
    /\ UniqueRows(parts, avails)
    /\ IndexAccepts(txAvails, pending)

\* C4: process_results is idempotent.  On a storage layer that works, when
\* process_results(B, S) has run and runs again at once, the second run
\* leaves every Part and Availability row as the first run left it and
\* creates no row.
C4_SecondRunChangesNothing ==
    (pc = "done" /\ run = 2) => parts = parts0 /\ avails = avails0

\* The second run has committed, over a Part the first run created and
\* gave an Availability for the supplier.
C4_Witness ==
    /\ pc = "done" /\ run = 2 /\ commitResult = "ok"
    /\ \E p \in parts :
        /\ p.created_at = now - 1
        /\ AvailsByKey(avails, p.id, supplier) # {}

\* C5 (as claimed): for a non-empty batch whose commit succeeds, success is
\* True exactly when the per-item errors are fewer than half the batch size,
\* compared as reals (2 * errors < n).
C5_SuccessIffErrorsBelowHalf ==
    CommitOk => (ret[1] <=> 2 * count_errors < n)

\* C6 (as claimed): a batch of n valid items with pairwise distinct
\* references, none in the store (every item created its Part, none raised),
\* whose commit succeeds, returns (True, n) and adds n Part rows and n
\* Availability rows of the supplier.
C6_AllNewReturnsTrueN ==
    (CommitOk /\ count_new = n /\ raised = 0) =>
        /\ ret = <<TRUE, n>>
        /\ Cardinality(parts) = Cardinality(parts0) + n
        /\ Cardinality({a \in avails : a.supplier_id = supplier})
             = Cardinality({a \in avails0 : a.supplier_id = supplier}) + n

\* C7: an item whose reference or name is missing or empty is skipped: the
\* step that consumes it writes nothing and counts nothing, and when no item
\* raises and the commit succeeds, processedCount is the number of items
\* that carry both fields.
C7_SkipStep ==
    \A it \in Items :
        (~HasBoth(it) /\ ItemStepOn(it, "none")) =>
            UNCHANGED <<session, count_new, count_updated, count_errors, raised>>

C7_ProcessedIsValid ==
    (CommitOk /\ raised = 0) => (ret[2] = valid /\ count_errors = 0)

C7_SkippedItems == []C7_ProcessedIsValid /\ [][C7_SkipStep]_vars

\* A committed batch that held skipped items next to items it wrote.
C7_Witness == CommitOk /\ raised = 0 /\ valid >= 1 /\ valid < n

\* Items of the recorded batch that reach the Part with reference ref.
Touching(ref) == {i \in DOMAIN batch : HasBoth(batch[i]) /\ batch[i].reference = ref}

\* The last item of the recorded batch, among those of reference ref, that
\* holds key k; 0 when there is none.
LastHolding(ref, k) ==
    LET S == {i \in Touching(ref) : batch[i][k] # Absent}
    IN IF S = {} THEN 0 ELSE MaxOf(S)

FirstRunCommitted == pc = "done" /\ run = 1 /\ commitResult = "ok"

\* C8: ingesting an item whose reference is in the store, for a supplier
\* that has an Availability for it, sets that Availability's price to the
\* item's price (the last such item of the batch, when it holds a price) and
\* leaves the Part's id, reference and created_at as they were; when every
\* item of the batch is such an item, no Part or Availability row is added.
C8_ExistingPairUpdated ==
    FirstRunCommitted =>
        /\ \A p0 \in parts0 : \A a0 \in AvailsByKey(avails0, p0.id, supplier) :
              Touching(p0.reference) # {} =>
                /\ \E p \in parts : /\ p.id = p0.id /\ p.reference = p0.reference
                                    /\ p.created_at = p0.created_at
                /\ \E a \in avails :
                      /\ a.id = a0.id /\ a.part_id = a0.part_id
                      /\ a.supplier_id = a0.supplier_id
                      /\ LastHolding(p0.reference, "price") # 0 =>
                            a.price = batch[LastHolding(p0.reference, "price")].price
        /\ (\A i \in DOMAIN batch : HasBoth(batch[i]) =>
               \E p0 \in PartsByRef(parts0, batch[i].reference) :
                   AvailsByKey(avails0, p0.id, supplier) # {})
           => /\ Cardinality(parts) = Cardinality(parts0)
              /\ Cardinality(avails) = Cardinality(avails0)

\* A committed run changed the price of an Availability the store held, and
\* renamed its Part, created by an earlier call.
C8_Witness ==
    /\ FirstRunCommitted
    /\ \E a0 \in avails0, a \in avails :
          /\ a.id = a0.id /\ a.supplier_id = supplier
          /\ a0.price # "p1" /\ a.price = "p1"
    /\ \E p0 \in parts0, p \in parts :
          /\ p.id = p0.id /\ p.name # p0.name /\ p.created_at < now

\* C9 (as claimed): when an existing Availability is updated, each of price,
\* in_stock and url for which the items carry no value (key omitted, or
\* None) keeps its stored value.
C9_NoValueKeepsStored ==
    FirstRunCommitted =>
        \A p0 \in parts0 : \A a0 \in AvailsByKey(avails0, p0.id, supplier) :
            \A k \in {"price", "in_stock", "url"} :
                (\A i \in Touching(p0.reference) : batch[i][k] \in {Absent, Null})
                => \E a \in avails : a.id = a0.id /\ a[k] = a0[k]

\* C10 (as claimed): an exception raised by one item is caught and counted
\* as one error and does not abort the batch: the items after it are still
\* processed (the session still takes their statements) and the writes of
\* the other items are committed.
C10_ItemErrorDoesNotAbort ==
    run = 1 =>
        /\ pc = "loop" => count_errors = raised
        /\ raised > 0 => ~poisoned
        /\ (pc = "done" /\ raised > 0) => commitResult = "ok"

\* The most recent k entries of `all`, oldest first.
Recent(all, k) ==
    LET len == IF Len(all) < k THEN Len(all) ELSE k
    IN [i \in 1..len |-> all[Len(all) - len + i]]

\* C15: after any sequence of recorded outcomes, response_times holds at
\* most 50 entries and items_counts at most 20, and each buffer is the most
\* recent entries of the values appended on successes, in append order.
C15_BuffersHoldMostRecent ==
    \A src \in DOMAIN metrics :
        /\ Len(metrics[src].response_times) <= 50
        /\ Len(metrics[src].items_counts) <= 20
        /\ metrics[src].response_times = Recent(appended[src].response_times, 50)
        /\ metrics[src].items_counts = Recent(appended[src].items_counts, 20)

\* Both buffers have evicted entries, and a failure was recorded after that.
C15_Witness ==
    /\ 1 \in DOMAIN metrics
    /\ Len(appended[1].response_times) > 50
    /\ metrics[1].runs > metrics[1].successes
    /\ Head(metrics[1].items_counts) > 1

\* max(base, min(5.0, 0.2 * mean(latencies)))
C16_Formula(latencies, base) ==
    LET fifth == <<SumSeq(latencies), 5 * Len(latencies)>>
        capped == IF RLess(<<5, 1>>, fifth) THEN <<5, 1>> ELSE fifth
    IN IF RLess(capped, base) THEN base ELSE capped

RatEq(a, b) == a[1] * b[2] = b[1] * a[2]

\* optimal_delay of src once one more success of latency x is recorded.
DelayAfter(src, x) ==
    update_source_metrics(metrics, src, TRUE, x, 10, Null, SCRAPER_DELAY)[src].optimal_delay

\* With at least 5 latencies the delay is the formula's value and does not
\* go down when a further success moves the mean up (nor up when down).
C16_FormulaAndMonotone(src) ==
    LET e == metrics[src] IN
    /\ RatEq(e.optimal_delay, C16_Formula(e.response_times, SCRAPER_DELAY))
    /\ \A x \in {v[1] : v \in SuccessInputs} :
          LET after == LastN(Append(e.response_times, x), 50) IN
          /\ RLeq(mean(e.response_times), mean(after))
                => RLeq(e.optimal_delay, DelayAfter(src, x))
          /\ RLeq(mean(after), mean(e.response_times))
                => RLeq(DelayAfter(src, x), e.optimal_delay)

\* C16 (as claimed): for every source with at least 5 recorded latencies and
\* every configured base delay, optimal_delay equals
\* max(baseDelay, min(5.0, 0.2 * mean(latencies))), lies in [baseDelay, 5.0]
\* and is non-decreasing in the mean latency.
C16_DelayInBaseToFive ==
    \A src \in DOMAIN metrics :
        Len(metrics[src].response_times) >= 5 =>
            /\ C16_FormulaAndMonotone(src)
            /\ RLeq(SCRAPER_DELAY, metrics[src].optimal_delay)
            /\ RLeq(metrics[src].optimal_delay, <<5, 1>>)

\* C16 (amended): the formula and the monotonicity hold for every base
\* delay; the delay lies in [baseDelay, 5.0] when baseDelay <= 5.0, and it is
\* baseDelay when baseDelay > 5.0.
C16_DelayInBaseToFiveWhenBaseBelowCap ==
    \A src \in DOMAIN metrics :
        Len(metrics[src].response_times) >= 5 =>
            /\ C16_FormulaAndMonotone(src)
            /\ RLeq(SCRAPER_DELAY, metrics[src].optimal_delay)
            /\ RLeq(SCRAPER_DELAY, <<5, 1>>)
                  => RLeq(metrics[src].optimal_delay, <<5, 1>>)
            /\ RLess(<<5, 1>>, SCRAPER_DELAY)
                  => metrics[src].optimal_delay = SCRAPER_DELAY

\* Five latencies whose tuned delay lies strictly between the base and 5.0.
C16_Witness ==
    \E src \in DOMAIN metrics :
        /\ Len(metrics[src].response_times) >= 5
        /\ RLess(SCRAPER_DELAY, metrics[src].optimal_delay)
        /\ RLess(metrics[src].optimal_delay, <<5, 1>>)

\* 10 - 10*successRate, minus 2 for a mean yield above 50, plus 3 when
\* failures exceed successes, as the fraction num / runs.
C18_Score(e) ==
    LET bonus == IF e.items_counts # <<>>
                    /\ SumSeq(e.items_counts) > 50 * Len(e.items_counts)
                 THEN 2 ELSE 0
        penalty == IF e.failures > e.successes THEN 3 ELSE 0
    IN 10 * (e.runs - e.successes) + (penalty - bonus) * e.runs

\* C18: get_source_priority returns 5 for a source without a metrics entry;
\* for a source with an entry it returns the score clamped to [1, 10].
C18_PriorityFormula ==
    \A src \in Sources :
        LET p == get_source_priority(metrics, src) IN
        IF src \notin DOMAIN metrics THEN p = <<5, 1>>
        ELSE LET e == metrics[src]
                 num == C18_Score(e)
             IN /\ RLeq(<<1, 1>>, p) /\ RLeq(p, <<10, 1>>)
                /\ num < e.runs => RatEq(p, <<1, 1>>)
                /\ num > 10 * e.runs => RatEq(p, <<10, 1>>)
                /\ (e.runs <= num /\ num <= 10 * e.runs) => RatEq(p, <<num, e.runs>>)

\* One source has no entry; the other has the bonus and the penalty.
C18_Witness ==
    \E src \in DOMAIN metrics :
        /\ \E other \in Sources : other \notin DOMAIN metrics
        /\ metrics[src].failures > metrics[src].successes
        /\ metrics[src].successes >= 1
        /\ SumSeq(metrics[src].items_counts) > 50 * Len(metrics[src].items_counts)

\* C19: of two entries with the same recent-yield buffer, the one with the
\* higher successes/runs ratio has a priority less than or equal to the
\* other's.
C19_PriorityFallsWithRate ==
    \A s1 \in DOMAIN metrics, s2 \in DOMAIN metrics :
        (/\ metrics[s1].items_counts = metrics[s2].items_counts
         /\ metrics[s1].successes * metrics[s2].runs
               > metrics[s2].successes * metrics[s1].runs)
        => RLeq(get_source_priority(metrics, s1), get_source_priority(metrics, s2))

\* Two entries with the same non-empty yields, one with a penalty.
C19_Witness ==
    \E s1 \in DOMAIN metrics, s2 \in DOMAIN metrics :
        /\ metrics[s1].items_counts = metrics[s2].items_counts
        /\ metrics[s1].items_counts # <<>>
        /\ metrics[s1].failures = 0
        /\ metrics[s2].failures > metrics[s2].successes
        /\ RLess(get_source_priority(metrics, s1), get_source_priority(metrics, s2))

\* Place in the log of the last call of run_scraper_with_retry.
LastStart == MaxOf({0} \cup {i \in DOMAIN log : log[i][1] = "start"})

\* Events of the current (or last) call of run_scraper_with_retry.
RunLog == IF LastStart = 0 THEN <<>> ELSE SubSeq(log, LastStart, Len(log))

Places(ev) == {i \in DOMAIN RunLog : RunLog[i][1] = ev}
Count(ev) == Cardinality(Places(ev))
RecordsOf(flag) == {i \in Places("record") : RunLog[i][2] = flag}

\* The tuned delay the metrics held for the source when the call started.
DelayAtStart ==
    IF source \in DOMAIN metrics0 THEN metrics0[source].optimal_delay ELSE SCRAPER_DELAY

\* The call has returned and every attempt ended in a non-import error.
AllAttemptsFailed ==
    rpc = "returned" /\ Count("ok") = 0 /\ Count("import") = 0

\* C11: when the adapter fails with a non-import error on every attempt, it
\* is invoked maxRetries + 1 times; there are maxRetries sleeps, the k-th
\* after the k-th failure and of delay * 2^(k-1); no sleep follows the last
\* failure; maxRetries + 1 failures are recorded and None is returned.
C11_ExhaustedRetries ==
    AllAttemptsFailed =>
        /\ Count("invoke") = SCRAPER_MAX_RETRIES + 1
        /\ Count("error") = SCRAPER_MAX_RETRIES + 1
        /\ Count("sleep") = SCRAPER_MAX_RETRIES
        /\ \A i \in Places("sleep") :
              LET k == Cardinality({j \in Places("error") : j < i}) IN
              /\ Cardinality({j \in Places("sleep") : j <= i}) = k
              /\ RunLog[i][2][1] * DelayAtStart[2]
                    = DelayAtStart[1] * (2 ^ (k - 1)) * RunLog[i][2][2]
        /\ \A i \in Places("sleep") : \E j \in Places("error") : j > i
        /\ Cardinality(RecordsOf(FALSE)) = SCRAPER_MAX_RETRIES + 1
        /\ RecordsOf(TRUE) = {}
        /\ results = NoNumber

\* Three attempts under max_retries = 2, from a tuned delay of 2 seconds.
C11_Witness ==
    /\ AllAttemptsFailed
    /\ SCRAPER_MAX_RETRIES = 2
    /\ DelayAtStart = <<2, 1>>

\* C12: as soon as one attempt succeeds, one success is recorded and the
\* items are returned: the log of the call ends with the success, its
\* record, the save and the return, whatever the failures before it.
C12_SuccessEndsRun ==
    \A i \in Places("ok") :
        /\ Len(RunLog) = i + 3
        /\ RunLog[i + 1] = <<"record", TRUE>>
        /\ RunLog[i + 2][1] = "save"
        /\ RunLog[i + 3] = <<"return", results>>
        /\ results >= 0
        /\ rpc \in {"returned", "pacing", "pick", "finished"}
        /\ Cardinality(RecordsOf(TRUE)) = 1
        /\ metrics[source].successes =
              (IF source \in DOMAIN metrics0 THEN metrics0[source].successes ELSE 0) + 1

\* A success after two failed attempts.
C12_Witness ==
    /\ rpc = "returned" /\ Count("ok") = 1 /\ Count("error") = 2 /\ results > 0

\* The call has returned after an ImportError.
ImportFailed == rpc = "returned" /\ Count("import") > 0

C13_ImportErrorEndsRun ==
    \A i \in Places("import") :
        /\ Len(RunLog) = i + 3
        /\ RunLog[i + 1] = <<"record", FALSE>>
        /\ RunLog[i + 2][1] = "save"
        /\ RunLog[i + 3] = <<"return", NoNumber>>
        /\ results = NoNumber
        /\ rpc \in {"returned", "pacing", "pick", "finished"}
        /\ {j \in Places("invoke") \cup Places("sleep") : j > i} = {}

C13_RoundGoesOn ==
    ImportFailed =>
        /\ rpc' = "pacing" /\ idx' = idx + 1
        /\ sorted_sources' = sorted_sources
        /\ totals' = [totals EXCEPT !.total_failed = @ + 1]

\* C13: an ImportError is never retried: one failure is recorded, there is
\* no sleep and no further invocation, None is returned, and the round goes
\* on to the next source of the schedule.
C13_ImportErrorNotRetried == []C13_ImportErrorEndsRun /\ [][C13_RoundGoesOn]_vars

\* The second source of the schedule is attempted after the first ended
\* with an ImportError on a retry.
C13_Witness ==
    /\ rpc = "attempt" /\ idx = 2
    /\ \E i \in 1..(LastStart - 1) : log[i][1] = "import"
    /\ \E i \in 1..(LastStart - 1) : log[i][1] = "sleep"

\* C14 (as claimed): after each update_source_metrics call of the retry
\* engine, the metrics file equals the metrics in memory before the next
\* sleep or the next adapter invocation begins.
C14_SavedBeforeSleepOrAttempt ==
    rpc \in {"sleep", "attempt"} => file = json_dump(metrics)

\* 5 pages above 0.9 and 10 runs, 3 pages above 0.7 and 5 runs, else 2.
C17_Rule(successes, runs) ==
    IF runs > 10 /\ 10 * successes > 9 * runs THEN 5
    ELSE IF runs > 5 /\ 10 * successes > 7 * runs THEN 3
    ELSE 2

\* C17 (as claimed): the page budget passed on every attempt of a run is
\* the rule's value for the counters the source had when the run started;
\* a source with no recorded history is fetched with 2 pages.
C17_BudgetFollowsRule ==
    \A i \in Places("invoke") :
        RunLog[i][2] =
            IF source \in DOMAIN metrics0
            THEN C17_Rule(metrics0[source].successes, metrics0[source].runs)
            ELSE 2

Scheduled == rpc \in {"pick", "attempt", "sleep", "returned", "pacing", "finished"}

\* C20: the schedule holds the enabled sources, each once, by ascending
\* priority of the metrics loaded at round start, equal priorities in
\* declaration order; a disabled source is not scheduled and not fetched,
\* with or without a Supplier row.
C20_ScheduleOfEnabledByPriority ==
    /\ Scheduled =>
          /\ {sorted_sources[i] : i \in DOMAIN sorted_sources} = {s \in Sources : enabled[s]}
          /\ Len(sorted_sources) = Cardinality({s \in Sources : enabled[s]})
    /\ (rpc = "pick" /\ idx = 1) =>
          \A i \in DOMAIN sorted_sources, j \in DOMAIN sorted_sources :
              i < j =>
                LET pi == get_source_priority(metrics, sorted_sources[i])
                    pj == get_source_priority(metrics, sorted_sources[j])
                IN /\ RLeq(pi, pj)
                   /\ RatEq(pi, pj) => sorted_sources[i] < sorted_sources[j]
    /\ source # 0 => enabled[source]
    /\ \A i \in DOMAIN log : log[i][1] = "start" => enabled[log[i][2]]

\* The second source of the configuration was fetched first.
C20_Witness ==
    /\ rpc = "finished" /\ sorted_sources = <<2, 1>>
    /\ Cardinality({i \in DOMAIN log : log[i][1] = "start"}) = 2

\* ---------------------------------------------------------------- rounds
\* run_scrapers has returned or has been left by an exception.
RoundEnded == rpc \in {"finished", "aborted", "raised"}

\* C23: every round that is started reaches its terminal state and reports
\* the summary, whatever the outcomes of registration, fetches and ingests:
\* a round is never over without the summary.
C23_EndedRoundReportsSummary == RoundEnded => rpc = "finished"

\* C24: run_scrapers never lets a failure escape as an exception.
C24_NoFailureEscapes == rpc # "raised"

\* Names of the sources run_scraper_with_retry was called for.
Started == {log[i][2] : i \in {j \in DOMAIN log : log[j][1] = "start"}}

\* Enabled sources ensure_suppliers_exist left out of its map: their
\* creation failed.
Omitted == {s \in Sources : enabled[s] /\ s \notin DOMAIN suppliers_map}

Registered == rpc \in {"load", "pick", "attempt", "sleep", "returned", "pacing", "finished"}

\* C26: when the creation of a source's Supplier fails, the source is left
\* out of the map and has no row, it is not fetched and not counted; every
\* source with a row is in the map, every enabled one of them is scheduled,
\* and when the round is over each of them has been fetched and counted once.
C26_FailedCreationOmitsSource ==
    Registered =>
        /\ Omitted \cap Names(suppliers) = {}
        /\ Omitted \cap Started = {}
        /\ DOMAIN suppliers_map = Names(suppliers)
        /\ suppliers0 \subseteq suppliers
        /\ rpc # "load" =>
              \A s \in DOMAIN suppliers_map :
                  enabled[s] => \E i \in DOMAIN sorted_sources : sorted_sources[i] = s
        /\ rpc = "finished" =>
              /\ Started = {s \in DOMAIN suppliers_map : enabled[s]}
              /\ totals.total_success + totals.total_failed = Cardinality(Started)

\* The creation of the second source's Supplier failed and the round ended
\* after it fetched the first source.
C26_Witness ==
    /\ rpc = "finished" /\ Omitted = {2} /\ Started = {1}
    /\ totals.total_success + totals.total_failed = 1

\* C25: after any number of rounds the table holds at most one row per
\* name, the rows the round found are still there as they were, and the
\* rows the round created are of enabled sources that had none.
C25_OneSupplierPerName ==
    /\ Cardinality(Names(suppliers)) = Cardinality(suppliers)
    /\ suppliers0 \subseteq suppliers
    /\ \A r \in suppliers \ suppliers0 :
          enabled[r.name] /\ r.name \notin Names(suppliers0)

\* The third round reuses the row of the second source, creates the row of
\* the first, which an earlier round left out because it was disabled.
C25_Witness ==
    /\ rounds = 3 /\ rpc = "load"
    /\ suppliers0 = {Row(1, 2)}
    /\ suppliers = {Row(1, 2), Row(2, 1)}

\* ------------------------------------------------ rounds and ingestions
\* run_scraper_with_retry has returned None.
Fatal == rpc = "returned" /\ results = NoNumber

\* What the round does with a Fatal result: one more failure, no call of
\* process_results, the store as it was, and on to the pause and the next
\* position of the schedule.
C21_FatalStep ==
    Fatal =>
        /\ totals' = [totals EXCEPT !.total_failed = @ + 1]
        /\ pc' = "idle" /\ now' = now
        /\ parts' = parts /\ avails' = avails
        /\ rpc' = "pacing" /\ idx' = idx + 1
        /\ sorted_sources' = sorted_sources /\ suppliers_map' = suppliers_map

\* When the round is over every source of the schedule that has a supplier
\* has been fetched.
C21_AllFetched ==
    rpc = "finished" => Started = {s \in DOMAIN suppliers_map : enabled[s]}

\* C21: a Fatal result counts one failure, process_results is not called
\* for the source, and the later sources that have a supplier are fetched.
C21_FatalIsNotFatalToRound == []C21_AllFetched /\ [][C21_FatalStep]_vars

\* The round is over: a source ended Fatal, a later source was fetched and
\* its batch ingested.
C21_Witness ==
    /\ rpc = "finished" /\ totals.total_failed >= 1 /\ now = 1
    /\ \E i \in DOMAIN log, j \in DOMAIN log :
          i < j /\ log[i] = <<"return", NoNumber>> /\ log[j][1] = "start"

\* A result that is not Fatal enters process_results.
C22_NonFatalIsIngested ==
    (rpc = "returned" /\ pc = "idle" /\ results # NoNumber) => pc' # "idle"

\* A source counted as failed with no call of process_results ended Fatal.
C22_FailedWithoutIngestIsFatal ==
    (rpc = "returned" /\ pc = "idle" /\ totals'.total_failed > totals.total_failed)
        => results = NoNumber

\* C22: every non-Fatal result, an empty list included, is ingested; only a
\* Fatal result is counted as failed without ingestion, so that a fetch the
\* metrics record as a success is not a failure of the summary.
C22_OnlyFatalSkipsIngest ==
    [][C22_NonFatalIsIngested /\ C22_FailedWithoutIngestIsFatal]_vars

\* process_results runs only once run_scraper_with_retry has returned, and
\* the session holds no transaction when the adapter is about to be invoked.
C30_FetchApartFromStorage ==
    /\ pc # "idle" => rpc = "returned"
    /\ rpc = "attempt" => ~txOpen

\* After a source's outcome comes its pause, and only the end of the pause
\* leads to the next source.
C30_PauseBetweenSources ==
    /\ (rpc = "returned" /\ rpc' # "returned") => rpc' = "pacing"
    /\ rpc = "pacing" => (rpc' = "pick" /\ log' = log /\ pc' = "idle")

\* C30: the sources are processed one after the other, the fetch is over
\* before the ingestion begins, the next fetch begins after the pause, and
\* no storage transaction is open while an adapter is invoked.
C30_SequentialNoOpenTransaction ==
    []C30_FetchApartFromStorage /\ [][C30_PauseBetweenSources]_vars

\* An interrupt was raised in a sleep of the round.
Interrupted == \E i \in DOMAIN log : log[i][1] = "interrupt"

\* Nothing of the round goes on after the interrupt: no invocation, no
\* ingestion, no write.
C29_NothingAfterCancel ==
    Interrupted =>
        /\ rpc' = rpc /\ log' = log /\ now' = now /\ pc' = pc
        /\ parts' = parts /\ avails' = avails /\ totals' = totals

\* The interrupt leaves the sleep without ending it: the wait is not
\* logged as done and the loop does not move.
C29_SleepAborted ==
    (~Interrupted /\ Interrupted') =>
        /\ rpc \in {"sleep", "pacing"}
        /\ Len(log') = Len(log) + 1
        /\ totals' = totals /\ idx' = idx /\ retry_count' = retry_count

\* The round is over; the session holds nothing that is not committed, and
\* a batch whose commit failed has left no row.
C29_LastCommittedBatch ==
    Interrupted =>
        /\ rpc = "cancelled" /\ pc = "idle"
        /\ txParts = parts /\ txAvails = avails /\ pending = <<>> /\ ~txOpen
        /\ commitResult = "none" => (parts = {} /\ avails = {})
        /\ commitResult \in {"failed", "env_failed"} =>
              (parts = parts0 /\ avails = avails0)

\* C29: an interrupt during a backoff sleep or a pause ends the round: no
\* adapter is invoked and no batch ingested afterwards, and the store is
\* what the last committed batch left.
C29_CancelEndsRound ==
    []C29_LastCommittedBatch /\ [][C29_NothingAfterCancel /\ C29_SleepAborted]_vars

\* The round was interrupted in the pause that follows a batch whose commit
\* failed after a new Part was flushed, with a source left to fetch.
C29_Witness ==
    /\ rpc = "cancelled" /\ commitResult = "failed" /\ flushedParts > 0
    /\ idx <= Len(sorted_sources)

\* ------------------------------------------------------- concurrency
\* C27: rounds are single-flight: a second round does not begin while a
\* first has not reached its terminal state.
C27_SingleFlight == Cardinality({p \in Procs : ppc[p] # "idle"}) <= 1

\* Runs the document counts for a source.
RunsIn(doc, s) == IF s \in DOMAIN doc THEN doc[s].runs ELSE 0

\* C28: the metrics are concurrency-safe: no reader meets a partly written
\* or emptied document, and once the writes are over the document holds
\* every recorded outcome.
C28_MetricsConcurrencySafe ==
    /\ ~sawTorn
    /\ writing = {} => \A s \in Sources : RunsIn(json_load(file), s) = recorded[s]

\* ------------------------------------------- behaviour of the ingestion
\* The first run of the recorded batch is over (its commit done or failed).
FirstRunOver == pc = "done" /\ run = 1

\* The store held no Availability of the supplier for reference ref when
\* the call began: the Part is new, or it has none for this supplier.
NoAvailAtEntry(ref) ==
    \A p0 \in PartsByRef(parts0, ref) : AvailsByKey(avails0, p0.id, supplier) = {}

\* C31: when a batch holds a reference more than once, for a Part that is
\* new or has no Availability of the supplier, the later item finds the Part
\* and the Availability the earlier item wrote and updates them: the batch
\* commits with one Part and one Availability for the reference, the Part
\* under the name of the last item.
C31_RepeatedReferenceUpdated ==
    FirstRunOver =>
        \A r \in Refs :
            (Cardinality(Touching(r)) >= 2 /\ NoAvailAtEntry(r)) =>
                /\ commitResult = "ok"
                /\ Cardinality(PartsByRef(parts, r)) = 1
                /\ \A p \in PartsByRef(parts, r) :
                      /\ p.name = batch[MaxOf(Touching(r))].name
                      /\ Cardinality(AvailsByKey(avails, p.id, supplier)) = 1

\* ------------------------------------------ behaviour of the retry engine
\* C32: attempts are independent: the latency recorded with a success is
\* the time of the successful invocation alone, whatever the failed
\* attempts and the sleeps before it.
C32_LatencyOfSuccessfulAttempt ==
    (rpc = "returned" /\ results # NoNumber) =>
        LET times == metrics[source].response_times
        IN times[Len(times)] = RoundLatency

\* The page budget the metrics held for the source when the call started.
PagesAtStart ==
    IF source \in DOMAIN metrics0 THEN metrics0[source].optimal_pages ELSE 3

\* C33: the tuning is read once, before the first attempt, and stays fixed
\* for the call: every invocation passes the page budget the metrics held
\* at the start and the k-th sleep waits the delay they held at the start
\* times 2^(k-1), whatever the failed attempts wrote to the metrics since.
C33_TuningFixedForRun ==
    RunLog # <<>> =>
        /\ backoff_time = DelayAtStart
        /\ optimal_pages = PagesAtStart
        /\ \A i \in Places("invoke") : RunLog[i][2] = PagesAtStart
        /\ \A i \in Places("sleep") :
              LET k == Cardinality({j \in Places("sleep") : j <= i})
              IN RatEq(RunLog[i][2], RTimes(DelayAtStart, 2 ^ (k - 1)))

\* The third invocation of a call that started from a tuned delay of 2
\* seconds, after two failures lowered the source's page budget in the
\* metrics.
C33_Witness ==
    /\ Count("invoke") = 3 /\ Count("sleep") = 2
    /\ DelayAtStart = <<2, 1>> /\ SCRAPER_DELAY = <<1, 1>>
    /\ metrics[source].optimal_pages # PagesAtStart

\* The pause in progress lies within the jitter interval around the delay the
\* metrics hold for the source just fetched.
C34_PauseWithinJitter ==
    rpc = "pacing" =>
        /\ source \in DOMAIN metrics
        /\ RLeq(RProduct(metrics[source].optimal_delay, <<4, 5>>), pause_time)
        /\ RLeq(pause_time, RProduct(metrics[source].optimal_delay, <<6, 5>>))

\* A fetched source is followed by one pause, the last source too, the pause
\* ends before anything else happens, and passing over a source pauses nothing.
C34_OnePausePerFetch ==
    /\ (rpc = "returned" /\ rpc' # "returned") => (rpc' = "pacing" /\ pause_time' # NoPause)
    /\ rpc = "pacing" => (rpc' = "pick" /\ pause_time' = NoPause)
    /\ (rpc = "pick" /\ idx' = idx + 1) => (rpc' = "pick" /\ pause_time' = NoPause)
    /\ (rpc = "pick" /\ rpc' = "finished") => pause_time = NoPause

\* C34: after each fetched source, whatever its outcome and also after the
\* last one, the round sleeps once for the source's tuned delay, as the fetch
\* left it, times a jitter between 0.8 and 1.2; a skipped source causes no
\* pause.
C34_PaceAfterEachFetch ==
    []C34_PauseWithinJitter /\ [][C34_OnePausePerFetch]_vars

\* The pause after the last source, with a delay the fetch has just changed.
C34_Witness ==
    /\ rpc = "pacing" /\ idx = Len(sorted_sources) + 1
    /\ metrics[source].optimal_delay # DelayAtStart
    /\ metrics[source].optimal_delay # SCRAPER_DELAY
    /\ pause_time = RProduct(metrics[source].optimal_delay, <<6, 5>>)

\* The sources run_scraper_with_retry was called for, in the order of the calls.
StartsInOrder ==
    LET starts == SelectSeq(log, LAMBDA ev : ev[1] = "start")
    IN [i \in DOMAIN starts |-> starts[i][2]]

\* The schedule without the sources that have no supplier in the map.
ScheduleInMap == SelectSeq(sorted_sources, LAMBDA s : s \in DOMAIN suppliers_map)

IsPrefix(a, b) == Len(a) <= Len(b) /\ a = SubSeq(b, 1, Len(a))

\* C35: a round that is not aborted at registration calls
\* run_scraper_with_retry exactly once for every enabled source that has a
\* supplier in the map, in the order of the schedule, and the round is
\* aborted before the schedule is made exactly when the map is empty.
C35_EachSourceOnceInScheduleOrder ==
    /\ rpc = "aborted" => (DOMAIN suppliers_map = {} /\ sorted_sources = <<>> /\ log = <<>>)
    /\ Registered => DOMAIN suppliers_map # {}
    /\ Scheduled =>
          /\ IsPrefix(StartsInOrder, ScheduleInMap)
          /\ \A s \in Sources :
                (enabled[s] /\ s \in DOMAIN suppliers_map)
                    <=> (\E i \in DOMAIN ScheduleInMap : ScheduleInMap[i] = s)
    /\ rpc = "finished" => StartsInOrder = ScheduleInMap

\* A finished round that fetched both sources, the second of the
\* declaration first.
C35_Witness == rpc = "finished" /\ StartsInOrder = <<2, 1>> /\ sorted_sources = <<2, 1>>

\* The processed counts the ingests of the round returned to run_scrapers.
RECURSIVE IngestedSum(_)
IngestedSum(events) ==
    IF events = <<>> THEN 0
    ELSE IngestedSum(Tail(events))
         + (IF Head(events)[1] = "ingested" THEN Head(events)[2] ELSE 0)

\* Calls of run_scraper_with_retry in the round.
RunsStarted == Cardinality({i \in DOMAIN log : log[i][1] = "start"})

\* C36: when the round is over, total_success + total_failed is the number
\* of sources run_scraper_with_retry was called for and total_items is the
\* sum of the processed counts the ingests of the round returned; an ingest
\* whose commit failed returns 0 and adds nothing.
C36_TotalsAccountForRound ==
    /\ rpc = "finished" =>
          /\ totals.total_success + totals.total_failed = RunsStarted
          /\ totals.total_items = IngestedSum(log)
    /\ Scheduled =>
          totals.total_success + totals.total_failed
              = RunsStarted - (IF rpc \in {"attempt", "sleep", "returned"} THEN 1 ELSE 0)
    /\ (pc = "done" /\ commitResult # "ok") => ret[2] = 0

\* A finished round of two sources: the first ingest processed an item, the
\* commit of the second failed.
C36_Witness ==
    /\ rpc = "finished" /\ RunsStarted = 2
    /\ commitResult \in {"failed", "env_failed"}
    /\ totals.total_items = 1 /\ IngestedSum(log) = 1
    /\ \E i \in DOMAIN log : log[i] = <<"ingested", 0>>

\* The failures the histogram of an entry accounts for.
HistogramSum(entry) == entry.errors["ImportError"] + entry.errors["TransientFetchError"]

\* Every entry balances its counters.
C37_CountersBalance ==
    \A s \in DOMAIN metrics :
        /\ metrics[s].runs = metrics[s].successes + metrics[s].failures
        /\ HistogramSum(metrics[s]) = metrics[s].failures

\* The entry of `s` before the step, a source not yet seen having none.
EntryBefore(s) == IF s \in DOMAIN metrics THEN metrics[s] ELSE NewEntry(SCRAPER_DELAY)

\* A recorded success touches neither the failures nor the histogram, a
\* recorded failure neither the successes nor the two buffers.
C37_OutcomeTouchesItsSide ==
    \A s \in DOMAIN metrics' :
        /\ metrics'[s].successes # EntryBefore(s).successes =>
              /\ metrics'[s].successes = EntryBefore(s).successes + 1
              /\ metrics'[s].failures = EntryBefore(s).failures
              /\ metrics'[s].errors = EntryBefore(s).errors
        /\ metrics'[s].failures # EntryBefore(s).failures =>
              /\ metrics'[s].failures = EntryBefore(s).failures + 1
              /\ metrics'[s].successes = EntryBefore(s).successes
              /\ metrics'[s].response_times = EntryBefore(s).response_times
              /\ metrics'[s].items_counts = EntryBefore(s).items_counts

\* C37: for every entry update_source_metrics created, after any outcomes,
\* runs = successes + failures and the counts of the histogram of error
\* kinds add up to failures; a success leaves failures and the histogram as
\* they were, a failure leaves successes and both buffers as they were.
C37_EntryCountersConsistent ==
    []C37_CountersBalance /\ [][C37_OutcomeTouchesItsSide]_vars

\* An entry with successes, and failures of both kinds, one kind twice.
C37_Witness ==
    \E s \in DOMAIN metrics :
        /\ metrics[s].successes = 2 /\ metrics[s].failures = 3
        /\ metrics[s].errors["ImportError"] = 2
        /\ metrics[s].errors["TransientFetchError"] = 1
        /\ Len(metrics[s].response_times) = 2

\* Runs the metrics held for the source when the call started.
RunsAtStart == IF source \in DOMAIN metrics0 THEN metrics0[source].runs ELSE 0

\* C38: whenever run_scraper_with_retry has returned, with items or with
\* None, the document in the metrics file is the dump of the metrics in
\* memory, and what a later round loads from it is these metrics, every
\* outcome of the call included.
C38_PersistedWhenRunReturns ==
    rpc \in {"returned", "pacing", "finished"} =>
        /\ file = json_dump(metrics)
        /\ load_metrics(file) = metrics
        /\ rpc = "returned" =>
              /\ source \in DOMAIN load_metrics(file)
              /\ load_metrics(file)[source].runs = RunsAtStart + Count("record")
              /\ load_metrics(file)[source].failures
                    = (IF source \in DOMAIN metrics0 THEN metrics0[source].failures ELSE 0)
                      + Cardinality(RecordsOf(FALSE))

\* A call that returned None after failures the engine had not written
\* when it slept, on a source with a history.
C38_Witness ==
    /\ rpc = "returned" /\ results = NoNumber
    /\ Count("sleep") = 2 /\ Cardinality(RecordsOf(FALSE)) = 3
    /\ RunsAtStart > 0

\* Parts of the committed store the call created.
CreatedParts == {p \in parts : \A q \in parts0 : q.id # p.id}

\* C39 (as claimed): in a call whose commit succeeds, an item is counted as
\* processed only if both its Part and its Availability were written: the
\* processed, the failed and the skipped items add up to the batch, no item
\* being counted twice, and every Part the call created has an Availability
\* of the supplier in the committed store.
C39_ProcessedMeansBothWritten ==
    CommitOk =>
        /\ ret[2] + count_errors + (n - valid) = n
        /\ \A p \in CreatedParts : AvailsByKey(avails, p.id, supplier) # {}

====
